---------------------------- MODULE Spec2Model ----------------------------
(***************************************************************************)
(* Competitor Matrix (Sheets-driven): the matrix builder (rowsToMatrix),   *)
(* the URL normalizer and the edit/sync controller of the CompetitorMatrix *)
(* component, as a state machine.                                          *)
(*                                                                         *)
(* Strings that the code parses (column keys, ids, tab labels, sheet       *)
(* names, image lines, URLs) are sequences of one-character strings, so    *)
(* that endsWith, slice, split, trim, replace and the regular expressions  *)
(* are computed character by character.  Strings the code only stores and  *)
(* compares (the credential, error messages) are TLA+ strings.             *)
(***************************************************************************)
EXTENDS Integers, Sequences, FiniteSets, TLC

VARIABLES
    tabsPc,        \* position of the tab-index effect: "fetching" | "done"
    tabs,          \* useState tabs: sequence of [id, label]
    tabToSheet,    \* useState tabToSheet: function tab id -> sheet name
    activeTab,     \* useState activeTab (<<>> is "", unset)
    data,          \* useState data: [criteria, courses, cells]
    loading,       \* useState loading
    loadError,     \* useState loadError (NULL or a message)
    loads,         \* fetchGViz calls of the active-tab effect still in flight
    nLoads,        \* number of active-tab loads started so far
    edit,          \* useState edit: <<>> (null) or <<[courseId, criterionId]>>
    draftText,     \* useState draftText
    draftImages,   \* useState draftImages
    apiKey,        \* localStorage gs_api_key
    saves,         \* the saveCell calls awaiting a response, in call order
    nSaves,        \* number of saveCell calls made so far
    lastWrite,     \* how the saveCell call that finished last ended
    inRows,        \* input of the matrix builder (builder specification)
    bpc,           \* builder specification: "input" | "built" | "builtApp"
    addCriterionOpen, \* useState addCriterionOpen
    newCriterion,  \* useState newCriterion: [name, description, filledBy]
    clock,         \* the last value Date.now() returned (0: none yet)
    adds,          \* the addCriterionLocal calls awaiting a response
    nAdds,         \* number of addCriterionLocal calls made so far
    hiddenCourses, \* useState hiddenCourses: sequence of course ids
    storage,       \* localStorage: the hiddenCourseIds entries, key -> list
    hiddenIn,      \* pairs <<tab, course>>: hidden, not unhidden, under tab
    courseAdds,    \* the addCourse calls awaiting their response
    nCourseAdds,   \* number of addCourse calls made so far
    remote         \* the upsertCell requests the write endpoint has handled, in order

vars == <<tabsPc, tabs, tabToSheet, activeTab, data, loading, loadError, loads,
          nLoads, edit, draftText, draftImages, apiKey, saves, nSaves, lastWrite,
          inRows, bpc, addCriterionOpen, newCriterion, clock, adds, nAdds,
          hiddenCourses, storage, hiddenIn, courseAdds, nCourseAdds, remote>>

\* the state of the add-criterion form, of the hidden courses and of addCourse
opsVars == <<addCriterionOpen, newCriterion, clock, adds, nAdds, hiddenCourses,
             storage, hiddenIn, courseAdds, nCourseAdds>>

NULL == "null"

\* no saveCell call has finished yet
NoWrite == [reqs |-> 0, prompts |-> 0, answer |-> NULL, log |-> <<>>]

(***************************************************************************)
(* Bounds of the model.                                                    *)
(***************************************************************************)
MaxRows == 2       \* records in a builder input
MaxCourses == 3    \* course columns in a builder input
MaxLoads == 3      \* active-tab loads started in one run
MaxSaves == 2      \* saveCell calls in one run
MaxAdds == 1       \* addCriterionLocal calls in one run
MaxClock == 2      \* largest value of Date.now()
MaxCourseAdds == 2 \* addCourse calls in one run
MaxOps == 2        \* calls that change the matrix between two loads
MaxPieces == 3     \* pieces a normalizer input is put together from

(***************************************************************************)
(* Characters.                                                             *)
(***************************************************************************)
Digits == {"0", "1", "2", "3", "4", "5", "6", "7", "8", "9"}

DigitVal(c) ==
    CASE c = "0" -> 0 [] c = "1" -> 1 [] c = "2" -> 2 [] c = "3" -> 3
      [] c = "4" -> 4 [] c = "5" -> 5 [] c = "6" -> 6 [] c = "7" -> 7
      [] c = "8" -> 8 [] c = "9" -> 9

DigitChar(n) ==
    CASE n = 0 -> "0" [] n = 1 -> "1" [] n = 2 -> "2" [] n = 3 -> "3"
      [] n = 4 -> "4" [] n = 5 -> "5" [] n = 6 -> "6" [] n = 7 -> "7"
      [] n = 8 -> "8" [] n = 9 -> "9"

\* what String.prototype.trim removes (the characters of it the model uses)
WhiteSpace == {" ", "\t", "\n", "\r"}

\* Collation rank of the characters the model's ids are made of: in the root
\* collation used by localeCompare punctuation sorts before digits, digits
\* before letters, letters alphabetically.
CharRank(c) ==
    CASE c = "_" -> 1
      [] c \in Digits -> 10 + DigitVal(c)
      [] c = "a" -> 30 [] c = "b" -> 31 [] c = "c" -> 32 [] c = "k" -> 40
      [] c = "x" -> 50 [] c = "y" -> 51
      [] OTHER -> 60

(***************************************************************************)
(* String helpers.                                                         *)
(***************************************************************************)
endsWith(s, suf) ==
    /\ Len(s) >= Len(suf)
    /\ SubSeq(s, Len(s) - Len(suf) + 1, Len(s)) = suf

\* k.slice(0, -n)
sliceEnd(s, n) == SubSeq(s, 1, Len(s) - n)

RECURSIVE trimStart(_)
trimStart(s) ==
    IF s # <<>> /\ Head(s) \in WhiteSpace THEN trimStart(Tail(s)) ELSE s

RECURSIVE trimEnd(_)
trimEnd(s) ==
    IF s # <<>> /\ s[Len(s)] \in WhiteSpace
    THEN trimEnd(SubSeq(s, 1, Len(s) - 1)) ELSE s

trim(s) == trimEnd(trimStart(s))

\* index of the first occurrence of character c in s, 0 when there is none
IndexOfChar(s, c) ==
    IF \E i \in 1..Len(s) : s[i] = c
    THEN CHOOSE i \in 1..Len(s) : s[i] = c /\ \A j \in 1..(i - 1) : s[j] # c
    ELSE 0

\* s.split(/\r?\n/)
RECURSIVE splitLines(_)
splitLines(s) ==
    LET i == IndexOfChar(s, "\n") IN
    IF i = 0 THEN <<s>>
    ELSE LET head == SubSeq(s, 1, i - 1)
             piece == IF head # <<>> /\ head[Len(head)] = "\r"
                      THEN SubSeq(head, 1, Len(head) - 1) ELSE head
         IN <<piece>> \o splitLines(SubSeq(s, i + 1, Len(s)))

\* a.replace(/\D+/g, "")
removeNonDigits(s) == SelectSeq(s, LAMBDA c : c \in Digits)

\* parseInt(d) || 0 for a string d of decimal digits ("" parses to NaN, and
\* NaN || 0 is 0).  The ids of the model are short: no digit string reaches
\* 2^53, where parseInt would round.
RECURSIVE parseIntOr0(_)
parseIntOr0(d) ==
    IF d = <<>> THEN 0
    ELSE 10 * parseIntOr0(SubSeq(d, 1, Len(d) - 1)) + DigitVal(d[Len(d)])

\* `${n}` for a natural number n
RECURSIVE numToStr(_)
numToStr(n) ==
    IF n < 10 THEN <<DigitChar(n)>>
    ELSE numToStr(n \div 10) \o <<DigitChar(n % 10)>>

\* a.localeCompare(b) < 0 on the model's alphabet
RECURSIVE localeLess(_, _)
localeLess(a, b) ==
    IF b = <<>> THEN FALSE
    ELSE IF a = <<>> THEN TRUE
    ELSE IF Head(a) # Head(b) THEN CharRank(Head(a)) < CharRank(Head(b))
    ELSE localeLess(Tail(a), Tail(b))

(***************************************************************************)
(* Constants of the program.                                               *)
(***************************************************************************)
COURSE_CRIT_ID == <<"c", "o", "u", "r", "s", "e", "_", "m", "e", "t", "a">>
\* "0. Курс", "Прочие критерии", "XI. Прочее", "Курс", "Критерий " (transliterated)
COURSE_GROUP == <<"0", ".", " ", "K", "u", "r", "s">>
MISC_GROUP == <<"P", "r", "o", "c", "h", "i", "e", " ", "k", "r", "i", "t", "e", "r", "i", "i">>
LEGACY_MISC_GROUP == <<"X", "I", ".", " ", "P", "r", "o", "c", "h", "e", "e">>
COURSE_ROW_NAME == <<"K", "u", "r", "s">>
CRITERION_NAME_PREFIX == <<"K", "r", "i", "t", "e", "r", "i", "j", " ">>
ROW_ID_PREFIX == <<"r", "o", "w", "_">>
DRIVE_VIEW_PREFIX ==
    <<"h", "t", "t", "p", "s", ":", "/", "/", "d", "r", "i", "v", "e", ".", "g", "o", "o", "g", "l", "e", ".", "c", "o", "m", "/", "u", "c", "?">> \o
    <<"e", "x", "p", "o", "r", "t", "=", "v", "i", "e", "w", "&", "i", "d", "=">>
FILE_D == <<"/", "f", "i", "l", "e", "/", "d", "/">>
ID_EQ == <<"i", "d", "=">>
SUFFIX_TEXT == <<"_", "t", "e", "x", "t">>
SUFFIX_IMAGES == <<"_", "i", "m", "a", "g", "e", "s">>
K_section == <<"s", "e", "c", "t", "i", "o", "n">>
K_criterion == <<"c", "r", "i", "t", "e", "r", "i", "o", "n">>
K_description == <<"d", "e", "s", "c", "r", "i", "p", "t", "i", "o", "n">>
K_filled_by == <<"f", "i", "l", "l", "e", "d", "_", "b", "y">>
K_filledBy == <<"f", "i", "l", "l", "e", "d", "B", "y">>
K_criterion_id == <<"c", "r", "i", "t", "e", "r", "i", "o", "n", "_", "i", "d">>
K_criterionId == <<"c", "r", "i", "t", "e", "r", "i", "o", "n", "I", "d">>

(***************************************************************************)
(* URL normalizer.                                                         *)
(***************************************************************************)
\* the end of the longest run of characters other than `stop` that starts at i
RunEnd(u, i, stop) ==
    CHOOSE e \in i..Len(u) :
        /\ \A j \in i..e : u[j] # stop
        /\ (e = Len(u) \/ u[e + 1] = stop)

\* u.match(/\/file\/d\/([^/]+)/): the positions where the pattern matches
FileDMatches(u) ==
    {p \in 1..Len(u) :
        /\ p + Len(FILE_D) <= Len(u)
        /\ SubSeq(u, p, p + Len(FILE_D) - 1) = FILE_D
        /\ u[p + Len(FILE_D)] # "/"}

\* u.match(/[?&]id=([^&]+)/): the positions where the pattern matches
IdParamMatches(u) ==
    {p \in 1..Len(u) :
        /\ p + 1 + Len(ID_EQ) <= Len(u)
        /\ u[p] \in {"?", "&"}
        /\ SubSeq(u, p + 1, p + Len(ID_EQ)) = ID_EQ
        /\ u[p + 1 + Len(ID_EQ)] # "&"}

Leftmost(S) == CHOOSE p \in S : \A q \in S : p <= q

\* null is the empty string here: a captured id is never empty
extractDriveId(u) ==
    IF FileDMatches(u) # {}
    THEN LET s == Leftmost(FileDMatches(u)) + Len(FILE_D)
         IN SubSeq(u, s, RunEnd(u, s, "/"))
    ELSE IF IdParamMatches(u) # {}
    THEN LET s == Leftmost(IdParamMatches(u)) + 1 + Len(ID_EQ)
         IN SubSeq(u, s, RunEnd(u, s, "&"))
    ELSE <<>>

\* The image-extension test and the fall-through both return u.
normalizeImageUrl(u) ==
    IF u = <<>> THEN u
    ELSE LET id == extractDriveId(u) IN
         IF id # <<>> THEN DRIVE_VIEW_PREFIX \o id ELSE u

\* lines.split(/\r?\n/).map(trim).filter(Boolean)
imageLines(s) == SelectSeq([i \in 1..Len(splitLines(s)) |-> trim(splitLines(s)[i])],
                           LAMBDA l : l # <<>>)

\* the lines taken as they are
toImages_raw(lines) == [i \in 1..Len(lines) |-> [url |-> lines[i]]]

\* ... .map((url) => ({ url: normalizeImageUrl(url) }))
toImages(lines) == [i \in 1..Len(lines) |-> [url |-> normalizeImageUrl(lines[i])]]

(***************************************************************************)
(* Matrix builder.  A record (SheetRow) is a function from column keys to  *)
(* values; a key the record lacks reads as undefined, and `x || ""` turns  *)
(* undefined and "" alike into "".                                         *)
(***************************************************************************)
Field(r, k) == IF k \in DOMAIN r THEN r[k] ELSE <<>>

\* a || b
OrElse(a, b) == IF a # <<>> THEN a ELSE b

allKeys(rows) == UNION {DOMAIN rows[i] : i \in 1..Len(rows)}

\* the comparator of the sort: na - nb || a.localeCompare(b), negative
courseIdsInOrder_lexOnly(a, b) == localeLess(a, b)

courseIdsInOrder(a, b) ==
    LET na == parseIntOr0(removeNonDigits(a))
        nb == parseIntOr0(removeNonDigits(b))
    IN na < nb \/ (na = nb /\ localeLess(a, b))

\* Array.prototype.sort under the comparator, which orders distinct ids
\* strictly, so the result does not depend on the order of insertion.
RECURSIVE sortCourseIds(_)
sortCourseIds(S) ==
    IF S = {} THEN <<>>
    ELSE LET m == CHOOSE x \in S : \A y \in S \ {x} : courseIdsInOrder(x, y)
         IN <<m>> \o sortCourseIds(S \ {m})

courseIds(rows) ==
    sortCourseIds({sliceEnd(k, Len(SUFFIX_TEXT)) :
                     k \in {k \in allKeys(rows) : endsWith(k, SUFFIX_TEXT)}})

\* courseIds.map((cid, i) => ({ id: cid, name: `Курс ${i + 1}` }))
coursesOf(ids) ==
    [i \in 1..Len(ids) |->
        [id |-> ids[i], name |-> COURSE_ROW_NAME \o <<" ">> \o numToStr(i)]]

rowGroup(r) == trim(Field(r, K_section))
rowName(r) == trim(Field(r, K_criterion))
rowDescription(r) == trim(Field(r, K_description))
rowFilledBy(r) == trim(OrElse(Field(r, K_filled_by), Field(r, K_filledBy)))
rowCriterionId(r) == trim(OrElse(Field(r, K_criterion_id), Field(r, K_criterionId)))

\* if (!criterionId && !name && !group && !description) return;
rowSkipped(r) ==
    /\ rowCriterionId(r) = <<>>
    /\ rowName(r) = <<>>
    /\ rowGroup(r) = <<>>
    /\ rowDescription(r) = <<>>

\* idx is the record's zero-based position
rowId(r, idx) == OrElse(rowCriterionId(r), ROW_ID_PREFIX \o numToStr(idx))

rowCriterion(r, idx) ==
    [id |-> rowId(r, idx),
     name |-> OrElse(rowName(r), CRITERION_NAME_PREFIX \o numToStr(idx + 1)),
     description |-> rowDescription(r),
     filledBy |-> rowFilledBy(r),
     group |-> OrElse(rowGroup(r), MISC_GROUP)]

rowCell(r, cid, id) ==
    LET text == trim(Field(r, cid \o SUFFIX_TEXT))
        imagesRaw == trim(Field(r, cid \o SUFFIX_IMAGES))
    IN [courseId |-> cid, criterionId |-> id, text |-> text,
        images |-> IF imagesRaw # <<>> THEN toImages(imageLines(imagesRaw))
                   ELSE <<>>]

\* courseIds.forEach((cid) => cells.push(...))
rowCells(r, ids, id) == [i \in 1..Len(ids) |-> rowCell(r, ids[i], id)]

\* rows.forEach((r, idx) => ...) over the first n records
RECURSIVE rowsLoop(_, _, _)
rowsLoop(rows, ids, n) ==
    IF n = 0 THEN [criteria |-> <<>>, cells |-> <<>>]
    ELSE LET prev == rowsLoop(rows, ids, n - 1)
             r == rows[n]
         IN IF rowSkipped(r) THEN prev
            ELSE [criteria |-> Append(prev.criteria, rowCriterion(r, n - 1)),
                  cells |-> prev.cells \o rowCells(r, ids, rowId(r, n - 1))]

courseRow == [id |-> COURSE_CRIT_ID, name |-> COURSE_ROW_NAME, group |-> COURSE_GROUP]

withCourseRow_append(criteria) ==
    IF \E i \in 1..Len(criteria) : criteria[i].id = COURSE_CRIT_ID
    THEN criteria
    ELSE Append(criteria, courseRow)

\* if (!criteria.find((c) => c.id === COURSE_CRIT_ID)) criteria.unshift(...)
withCourseRow(criteria) ==
    IF \E i \in 1..Len(criteria) : criteria[i].id = COURSE_CRIT_ID
    THEN criteria
    ELSE <<courseRow>> \o criteria

rowsToMatrix(rows) ==
    LET ids == courseIds(rows)
        built == rowsLoop(rows, ids, Len(rows))
    IN [criteria |-> withCourseRow(built.criteria),
        courses |-> coursesOf(ids),
        cells |-> built.cells]

EmptyMatrix == [criteria |-> <<>>, courses |-> <<>>, cells |-> <<>>]

\* data.cells.find(...): <<cell>>, or <<>> for undefined
getCell(d, courseId, criterionId) ==
    LET hits == {i \in 1..Len(d.cells) :
                    /\ d.cells[i].courseId = courseId
                    /\ d.cells[i].criterionId = criterionId}
    IN IF hits = {} THEN <<>> ELSE <<d.cells[Leftmost(hits)]>>

(***************************************************************************)
(* The application's builder (src/src/CompetitorMatrix.tsx).  Its names    *)
(* carry the prefix app where the two files use the same name.  An         *)
(* optional field that is undefined is the empty string here.              *)
(***************************************************************************)
LowerLetters ==
    <<"a", "b", "c", "d", "e", "f", "g", "h", "i", "j", "k", "l", "m",
      "n", "o", "p", "q", "r", "s", "t", "u", "v", "w", "x", "y", "z">>
UpperLetters ==
    <<"A", "B", "C", "D", "E", "F", "G", "H", "I", "J", "K", "L", "M",
      "N", "O", "P", "Q", "R", "S", "T", "U", "V", "W", "X", "Y", "Z">>

lowerAscii(c) ==
    IF \E i \in 1..26 : UpperLetters[i] = c
    THEN LowerLetters[CHOOSE i \in 1..26 : UpperLetters[i] = c]
    ELSE c

isLetter(c) == \E i \in 1..26 : LowerLetters[i] = lowerAscii(c)

THUMB_PREFIX ==
    <<"h", "t", "t", "p", "s", ":", "/", "/", "d", "r", "i", "v", "e", ".",
      "g", "o", "o", "g", "l", "e", ".", "c", "o", "m", "/",
      "t", "h", "u", "m", "b", "n", "a", "i", "l", "?", "i", "d", "=">>
THUMB_SUFFIX == <<"&", "s", "z", "=", "w", "2", "0", "0", "0">>
IMAGE_EXTENSIONS ==
    {<<".", "p", "n", "g">>, <<".", "j", "p", "g">>, <<".", "j", "p", "e", "g">>,
     <<".", "w", "e", "b", "p">>, <<".", "g", "i", "f">>, <<".", "s", "v", "g">>}
GEN_ID_PREFIX == <<"g", "e", "n", "-">>

\* the position of the first character of s at or after i that is in stops,
\* Len(s) + 1 when there is none
FirstOf(s, i, stops) ==
    IF \E j \in i..Len(s) : s[j] \in stops
    THEN CHOOSE j \in i..Len(s) : s[j] \in stops /\ \A k \in i..(j - 1) : s[k] \notin stops
    ELSE Len(s) + 1

\* new URL(u) for a string of characters that need no percent-encoding:
\* [ok |-> FALSE] when the constructor throws (no scheme, or an http(s) URL
\* without a host), else the pathname and the search of the URL
parseUrl(u) ==
    LET colon == IndexOfChar(u, ":")
        failed == [ok |-> FALSE, pathname |-> <<>>, search |-> <<>>]
    IN IF colon < 2 \/ \E j \in 1..(colon - 1) : ~isLetter(u[j]) THEN failed
       ELSE LET scheme == [j \in 1..(colon - 1) |-> lowerAscii(u[j])]
                rest == SubSeq(u, colon + 1, Len(u))
                special == scheme \in {<<"h", "t", "t", "p">>, <<"h", "t", "t", "p", "s">>}
                slashes == IF special /\ Len(rest) >= 2 /\ rest[1] = "/" /\ rest[2] = "/"
                           THEN 2 ELSE 0
                pathStart == IF special THEN FirstOf(rest, slashes + 1, {"/", "?", "#"})
                             ELSE 1
                pathEnd == FirstOf(rest, pathStart, {"?", "#"})
                fragment == FirstOf(rest, pathEnd, {"#"})
                path == SubSeq(rest, pathStart, pathEnd - 1)
                query == SubSeq(rest, pathEnd, fragment - 1)
            IN IF special /\ pathStart = slashes + 1 THEN failed
               ELSE [ok |-> TRUE,
                     pathname |-> IF special /\ path = <<>> THEN <<"/">> ELSE path,
                     search |-> IF Len(query) <= 1 THEN <<>> ELSE query]

\* /\.(png|jpe?g|webp|gif|svg)(\?.*)?$/i on a pathname, which holds no "?"
hasImageExtension(pathname) ==
    \E e \in IMAGE_EXTENSIONS :
        endsWith([j \in 1..Len(pathname) |-> lowerAscii(pathname[j])], e)

appNormalizeImageUrl(u) ==
    LET url == parseUrl(u) IN
    IF ~url.ok THEN u
    ELSE IF hasImageExtension(url.pathname) THEN u
    ELSE LET id == IF FileDMatches(url.pathname) # {}
                   THEN LET b == Leftmost(FileDMatches(url.pathname)) + Len(FILE_D)
                        IN SubSeq(url.pathname, b, RunEnd(url.pathname, b, "/"))
                   ELSE IF IdParamMatches(url.search) # {}
                   THEN LET b == Leftmost(IdParamMatches(url.search)) + 1 + Len(ID_EQ)
                        IN SubSeq(url.search, b, RunEnd(url.search, b, "&"))
                   ELSE <<>>
         IN IF id # <<>> THEN THUMB_PREFIX \o id \o THUMB_SUFFIX ELSE u

appRowId(r, idx) ==
    IF rowGroup(r) = COURSE_GROUP /\ rowName(r) = COURSE_ROW_NAME THEN COURSE_CRIT_ID
    ELSE OrElse(trim(Field(r, K_criterion_id)), GEN_ID_PREFIX \o numToStr(idx + 1))

appRowCriterion(r, idx) ==
    [id |-> appRowId(r, idx),
     name |-> rowName(r),
     group |-> rowGroup(r),
     description |-> rowDescription(r),
     filledBy |-> trim(Field(r, K_filled_by))]

appRowCell(r, cid, id) ==
    [courseId |-> cid, criterionId |-> id,
     text |-> Field(r, cid \o SUFFIX_TEXT),
     images |-> LET lines == imageLines(Field(r, cid \o SUFFIX_IMAGES))
                IN [i \in 1..Len(lines) |-> [url |-> appNormalizeImageUrl(lines[i])]]]

\* courseIds.forEach: if (text || images.length) cells.push(...)
appRowCells(r, ids, id) ==
    SelectSeq([i \in 1..Len(ids) |-> appRowCell(r, ids[i], id)],
              LAMBDA c : c.text # <<>> \/ c.images # <<>>)

\* rows.forEach((r, idx) => ...) over the first n records: if (!name) return
RECURSIVE appRowsLoop(_, _, _)
appRowsLoop(rows, ids, n) ==
    IF n = 0 THEN [criteria |-> <<>>, cells |-> <<>>]
    ELSE LET prev == appRowsLoop(rows, ids, n - 1)
             r == rows[n]
         IN IF rowName(r) = <<>> THEN prev
            ELSE [criteria |-> Append(prev.criteria, appRowCriterion(r, n - 1)),
                  cells |-> prev.cells \o appRowCells(r, ids, appRowId(r, n - 1))]

appRowsToMatrix(rows) ==
    LET ids == courseIds(rows)
        built == appRowsLoop(rows, ids, Len(rows))
    IN [criteria |-> built.criteria, courses |-> coursesOf(ids), cells |-> built.cells]

(***************************************************************************)
(* Builder specification: rowsToMatrix applied to a list of records.       *)
(***************************************************************************)
\* course ids the input columns are drawn from
CourseIdPool ==
    {<<"c", "1">>,
     <<"c", "2">>,
     <<"c", "1", "0">>,
     <<"c", "1", "x", "2">>,
     <<"c", "0", "1">>,
     <<"x">>}

\* loose text: a drive share link, blank lines, padded lines
SampleText == <<" ", "h", "i", " ">>
SampleImages ==
    <<"/", "f", "i", "l", "e", "/", "d", "/", "a", "b", "/", "v", "i", "e", "w">> \o <<"\r", "\n", " ", "\n">> \o
    <<" ", "y", ".", "p", "n", "g", " ">>

\* the identity columns of one record
RowMetaPool ==
    {<<>>,
     (K_criterion_id :> <<"k", "1">> @@ K_criterion :> <<"a">>),
     (K_criterionId :> <<"k", "1">> @@ K_filledBy :> <<"y">>),
     (K_criterion_id :> COURSE_CRIT_ID @@ K_section :> COURSE_GROUP
        @@ K_criterion :> COURSE_ROW_NAME),
     (K_criterion :> <<" ", "b", " ">> @@ K_section :> <<>>),
     (K_section :> LEGACY_MISC_GROUP),
     (K_filled_by :> <<"x">>),
     (K_description :> <<"d">> @@ K_criterion_id :> <<" ">>),
     (K_criterion_id :> <<"k", "2">>)}

\* a record with identity columns meta and, for every course id, the text and
\* images columns: filled in the records that carry a criterion name and no
\* section column, empty in the others
InputRow(meta, ids) ==
    LET filled == K_criterion \in DOMAIN meta /\ K_section \notin DOMAIN meta
        keys == DOMAIN meta \cup {id \o SUFFIX_TEXT : id \in ids}
                            \cup {id \o SUFFIX_IMAGES : id \in ids}
    IN [k \in keys |->
          IF k \in DOMAIN meta THEN meta[k]
          ELSE IF ~filled THEN <<>>
          ELSE IF endsWith(k, SUFFIX_TEXT) THEN SampleText ELSE SampleImages]

SeqsUpTo(S, n) == UNION {[1..m -> S] : m \in 0..n}

BuilderInputs ==
    {[i \in 1..Len(metas) |-> InputRow(metas[i], ids)] :
        metas \in SeqsUpTo(RowMetaPool, MaxRows),
        ids \in {I \in SUBSET CourseIdPool : Cardinality(I) <= MaxCourses}}

\* the add-criterion form closed and empty, nothing hidden, nothing stored
EmptyForm == [name |-> <<>>, description |-> <<>>, filledBy |-> <<>>]

OpsIdle ==
    /\ addCriterionOpen = FALSE
    /\ newCriterion = EmptyForm
    /\ clock = 0
    /\ adds = <<>>
    /\ nAdds = 0
    /\ hiddenCourses = <<>>
    /\ storage = <<>>
    /\ hiddenIn = {}
    /\ courseAdds = <<>>
    /\ nCourseAdds = 0

ControllerIdle ==
    /\ tabsPc = "done"
    /\ tabs = <<>>
    /\ tabToSheet = <<>>
    /\ activeTab = <<>>
    /\ loading = FALSE
    /\ loadError = NULL
    /\ loads = {}
    /\ nLoads = 0
    /\ edit = <<>>
    /\ draftText = <<>>
    /\ draftImages = <<>>
    /\ apiKey = ""
    /\ saves = <<>>
    /\ nSaves = 0
    /\ lastWrite = NoWrite
    /\ remote = <<>>
    /\ OpsIdle

InitBuilder ==
    /\ ControllerIdle
    /\ data = EmptyMatrix
    /\ inRows \in BuilderInputs
    /\ bpc = "input"

Build ==
    /\ bpc = "input"
    /\ data' = rowsToMatrix(inRows)
    /\ bpc' = "built"
    /\ UNCHANGED <<opsVars, tabsPc, tabs, tabToSheet, activeTab, loading, loadError, loads,
                   nLoads, edit, draftText, draftImages, apiKey, saves, nSaves, lastWrite, inRows, remote>>

\* the application's builder applied to the same records
BuildApp ==
    /\ bpc = "input"
    /\ data' = appRowsToMatrix(inRows)
    /\ bpc' = "builtApp"
    /\ UNCHANGED <<opsVars, tabsPc, tabs, tabToSheet, activeTab, loading, loadError, loads,
                   nLoads, edit, draftText, draftImages, apiKey, saves, nSaves,
                   lastWrite, inRows, remote>>

NextBuilder == Build \/ BuildApp

SpecBuilder == InitBuilder /\ [][NextBuilder]_vars

(***************************************************************************)
(* The URL normalizers applied twice: normalizeImageUrl of the component   *)
(* and the one of the application's component, on URLs put together from   *)
(* at most MaxPieces pieces.                                               *)
(***************************************************************************)
UrlPieces ==
    {<<"h", "t", "t", "p", "s", ":", "/", "/", "h">>,
     FILE_D,
     <<"a">>,
     <<"a", "&", "b">>,
     <<"?", "i", "d", "=">>,
     <<"&">>,
     <<"/", "v">>,
     <<".", "p", "n", "g">>,
     <<"?", "x">>}

RECURSIVE concat(_)
concat(pieces) == IF pieces = <<>> THEN <<>> ELSE Head(pieces) \o concat(Tail(pieces))

UrlInputs == {concat(ps) : ps \in SeqsUpTo(UrlPieces, MaxPieces)}

InitUrl ==
    /\ ControllerIdle
    /\ data = <<>>
    /\ inRows \in UrlInputs
    /\ bpc = "url"

\* normalizeImageUrl(u)
Normalize ==
    /\ bpc = "url"
    /\ data' = <<normalizeImageUrl(inRows)>>
    /\ bpc' = "once"
    /\ UNCHANGED <<opsVars, tabsPc, tabs, tabToSheet, activeTab, loading, loadError, loads,
                   nLoads, edit, draftText, draftImages, apiKey, saves, nSaves,
                   lastWrite, inRows, remote>>

\* normalizeImageUrl of the result
NormalizeAgain ==
    /\ bpc = "once"
    /\ data' = Append(data, normalizeImageUrl(data[1]))
    /\ bpc' = "twice"
    /\ UNCHANGED <<opsVars, tabsPc, tabs, tabToSheet, activeTab, loading, loadError, loads,
                   nLoads, edit, draftText, draftImages, apiKey, saves, nSaves,
                   lastWrite, inRows, remote>>

\* the application's normalizeImageUrl(u)
NormalizeApp ==
    /\ bpc = "url"
    /\ data' = <<appNormalizeImageUrl(inRows)>>
    /\ bpc' = "onceApp"
    /\ UNCHANGED <<opsVars, tabsPc, tabs, tabToSheet, activeTab, loading, loadError, loads,
                   nLoads, edit, draftText, draftImages, apiKey, saves, nSaves,
                   lastWrite, inRows, remote>>

NormalizeAppAgain ==
    /\ bpc = "onceApp"
    /\ data' = Append(data, appNormalizeImageUrl(data[1]))
    /\ bpc' = "twiceApp"
    /\ UNCHANGED <<opsVars, tabsPc, tabs, tabToSheet, activeTab, loading, loadError, loads,
                   nLoads, edit, draftText, draftImages, apiKey, saves, nSaves,
                   lastWrite, inRows, remote>>

NextUrl == Normalize \/ NormalizeAgain \/ NormalizeApp \/ NormalizeAppAgain

SpecUrl == InitUrl /\ [][NextUrl]_vars

(***************************************************************************)
(* C21.  URL normalization is idempotent: normalizing the result of a      *)
(* normalization returns that result, for both normalizers and also for    *)
(* drive identifiers that hold "&" or "?".                                 *)
(***************************************************************************)
C21_Idempotent ==
    bpc \in {"twice", "twiceApp"} => data[2] = data[1]

(***************************************************************************)
(* Grouping: both builders applied to records of every kind of section     *)
(* (none, the catch-all's label, the legacy label, the course group's      *)
(* label, another label), and groupedCriteria on the criteria built.       *)
(***************************************************************************)
GroupMetaPool ==
    {(K_criterion_id :> <<"k", "1">> @@ K_criterion :> <<"a">>),
     (K_criterion_id :> <<"k", "2">> @@ K_section :> LEGACY_MISC_GROUP),
     (K_criterion_id :> <<"k", "3">> @@ K_section :> COURSE_GROUP @@ K_criterion :> <<"x">>),
     (K_criterion_id :> COURSE_CRIT_ID @@ K_section :> COURSE_GROUP
        @@ K_criterion :> COURSE_ROW_NAME),
     (K_section :> COURSE_GROUP @@ K_criterion :> COURSE_ROW_NAME),
     (K_criterion_id :> <<"k", "4">> @@ K_section :> <<"G">>),
     (K_criterion_id :> <<"k", "5">> @@ K_section :> MISC_GROUP)}

GroupInputs ==
    {[i \in 1..Len(metas) |-> InputRow(metas[i], ids)] :
        metas \in SeqsUpTo(GroupMetaPool, MaxRows),
        ids \in {{}, {<<"c", "1">>}}}

InitGroups ==
    /\ ControllerIdle
    /\ data = EmptyMatrix
    /\ inRows \in GroupInputs
    /\ bpc = "input"

NextGroups == Build \/ BuildApp

SpecGroups == InitGroups /\ [][NextGroups]_vars

C10_Ids(s) == [i \in 1..Len(s) |-> s[i].id]

(***************************************************************************)
(* C9.  Course-identity row synthesis: when no input record yields a       *)
(* criterion with id course_meta, rowsToMatrix prepends one with that id   *)
(* and the course-identity group, ahead of the record-derived criteria, so *)
(* the first element of criteria has id course_meta (also for no records). *)
(***************************************************************************)
C9_NoRecordYieldsCourseRow ==
    \A i \in 1..Len(inRows) :
        rowSkipped(inRows[i]) \/ rowCriterionId(inRows[i]) # COURSE_CRIT_ID

C9_KeptRows == {i \in 1..Len(inRows) : ~rowSkipped(inRows[i])}

C9_CourseRowSynthesized ==
    (bpc = "built" /\ C9_NoRecordYieldsCourseRow) =>
        /\ Len(data.criteria) = 1 + Cardinality(C9_KeptRows)
        /\ data.criteria[1].id = COURSE_CRIT_ID
        /\ data.criteria[1].group = COURSE_GROUP
        /\ \A i \in 2..Len(data.criteria) : data.criteria[i].id # COURSE_CRIT_ID

C9_Witness ==
    /\ bpc = "built"
    /\ C9_NoRecordYieldsCourseRow
    /\ Cardinality(C9_KeptRows) = 2
    /\ data.criteria[1].id = COURSE_CRIT_ID
    /\ data.criteria[2].id = <<"k", "1">>

(***************************************************************************)
(* C10.  Course ordering.  The claim as stated: the course ids are the     *)
(* distinct keys ending in _text with the suffix stripped, sorted          *)
(* ascending by the number formed by the leading digit run of the id (0    *)
(* when the id has no digit), ties broken lexicographically.               *)
(***************************************************************************)
C10_StrippedKeys ==
    {SubSeq(k, 1, Len(k) - 5) :
        k \in {k \in allKeys(inRows) :
                 Len(k) >= 5 /\ SubSeq(k, Len(k) - 4, Len(k)) = SUFFIX_TEXT}}

\* the first maximal run of digits of s
C10_LeadingDigitRun(s) ==
    LET at == {i \in 1..Len(s) : s[i] \in Digits} IN
    IF at = {} THEN <<>>
    ELSE LET b == CHOOSE i \in at : \A j \in at : i <= j
             e == CHOOSE i \in b..Len(s) :
                      /\ \A j \in b..i : s[j] \in Digits
                      /\ (i = Len(s) \/ s[i + 1] \notin Digits)
         IN SubSeq(s, b, e)

\* all the digits of s, in order
C10_AllDigits(s) ==
    LET at == {i \in 1..Len(s) : s[i] \in Digits}
        nth(S, n) == CHOOSE i \in S : Cardinality({j \in S : j < i}) = n - 1
    IN [n \in 1..Cardinality(at) |-> s[nth(at, n)]]

C10_Number(d) ==
    LET pow10[n \in 0..Len(d)] == IF n = 0 THEN 1 ELSE 10 * pow10[n - 1]
        sum[n \in 0..Len(d)] ==
            IF n = 0 THEN 0
            ELSE sum[n - 1] + DigitVal(d[n]) * pow10[Len(d) - n]
    IN sum[Len(d)]

C10_SortedBy(ids, key(_)) ==
    \A i, j \in 1..Len(ids) :
        i < j => \/ C10_Number(key(ids[i])) < C10_Number(key(ids[j]))
                 \/ /\ C10_Number(key(ids[i])) = C10_Number(key(ids[j]))
                    /\ localeLess(ids[i], ids[j])

C10_IdsAreStrippedKeys ==
    /\ {data.courses[i].id : i \in 1..Len(data.courses)} = C10_StrippedKeys
    /\ Len(data.courses) = Cardinality(C10_StrippedKeys)

C10_Example ==
    C10_StrippedKeys = {<<"c", "2">>, <<"c", "1", "0">>, <<"c", "1">>}
        => C10_Ids(data.courses) = <<<<"c", "1">>, <<"c", "2">>, <<"c", "1", "0">>>>

C10_OrderedByLeadingDigitRun ==
    bpc = "built" =>
        /\ C10_IdsAreStrippedKeys
        /\ C10_SortedBy(C10_Ids(data.courses), C10_LeadingDigitRun)
        /\ C10_Example

(***************************************************************************)
(* C10 as amended: the course ids are the distinct keys ending in _text    *)
(* with the suffix stripped, sorted ascending by the number formed by all  *)
(* the decimal digits of the id taken in order (0 when the id has no       *)
(* digit), ties broken lexicographically; for keys c2_text, c10_text,      *)
(* c1_text the order is c1, c2, c10.                                       *)
(***************************************************************************)
C10_OrderedByAllDigits ==
    bpc = "built" =>
        /\ C10_IdsAreStrippedKeys
        /\ C10_SortedBy(C10_Ids(data.courses), C10_AllDigits)
        /\ C10_Example

C10_Witness ==
    /\ bpc = "built"
    /\ C10_Ids(data.courses) = <<<<"c", "1">>, <<"c", "2">>, <<"c", "1", "0">>>>
    /\ {<<"c", "2", "_", "t", "e", "x", "t">>, <<"c", "1", "0", "_", "t", "e", "x", "t">>, <<"c", "1", "_", "t", "e", "x", "t">>} \subseteq allKeys(inRows)

(***************************************************************************)
(* C7.  Cell identity: the matrix rowsToMatrix builds from a list of       *)
(* records holds at most one cell for each (courseId, criterionId) pair.   *)
(* Two records with the same criterion id break it: each pushes its own    *)
(* cell for every course.                                                  *)
(***************************************************************************)
C7_CellsOf(courseId, criterionId) ==
    {i \in 1..Len(data.cells) :
        /\ data.cells[i].courseId = courseId
        /\ data.cells[i].criterionId = criterionId}

C7_AtMostOneCellPerPair ==
    bpc = "built" =>
        \A i \in 1..Len(data.cells) :
            Cardinality(C7_CellsOf(data.cells[i].courseId,
                                   data.cells[i].criterionId)) = 1

(***************************************************************************)
(* C8.  Reserved identity row: for every list of records the criteria      *)
(* rowsToMatrix produces hold exactly one criterion with id course_meta,   *)
(* and it is the first.  A record that carries the id course_meta stays    *)
(* where the input has it, and two such records both stay.                 *)
(***************************************************************************)
C8_CourseRows == {i \in 1..Len(data.criteria) : data.criteria[i].id = COURSE_CRIT_ID}

C8_ExactlyOneCourseRowFirst ==
    bpc = "built" => C8_CourseRows = {1}

(***************************************************************************)
(* C11.  Record skip rule: rowsToMatrix produces a criterion for a record  *)
(* if and only if at least one of its section, criterion, description and  *)
(* filled_by fields is non-empty after trimming.  The code tests the       *)
(* criterion id in the place of filled_by: a record with only filled_by    *)
(* is skipped, a record with only a criterion id is kept.                  *)
(***************************************************************************)
C11_AnyOfFour(r) ==
    \/ rowGroup(r) # <<>>
    \/ rowName(r) # <<>>
    \/ rowDescription(r) # <<>>
    \/ rowFilledBy(r) # <<>>

C11_HasCriterionOf(i) ==
    \E j \in 1..Len(data.criteria) : data.criteria[j].id = rowId(inRows[i], i - 1)

C11_SkippedIffAllFourEmpty ==
    bpc = "built" =>
        \A i \in 1..Len(inRows) : C11_AnyOfFour(inRows[i]) <=> C11_HasCriterionOf(i)

(***************************************************************************)
(* C12.  Row-to-cell completeness.  The claim as stated: for a single      *)
(* record with an explicit criterion id k, rowsToMatrix emits exactly one  *)
(* criterion with id k and, for each course c of its columns, exactly one  *)
(* cell (c, k) whose text is the value of <c>_text and whose images are    *)
(* the non-empty trimmed lines of <c>_images, in order, each normalized.   *)
(***************************************************************************)
C12_SingleExplicit ==
    /\ bpc = "built"
    /\ Len(inRows) = 1
    /\ rowCriterionId(inRows[1]) # <<>>

C12_Lines(s) ==
    LET raw == splitLines(s)
        kept == {i \in 1..Len(raw) : trim(raw[i]) # <<>>}
        nth(n) == CHOOSE i \in kept : Cardinality({j \in kept : j < i}) = n - 1
    IN [n \in 1..Cardinality(kept) |-> trim(raw[nth(n)])]

C12_CellsOf(c) ==
    {i \in 1..Len(data.cells) :
        /\ data.cells[i].courseId = c
        /\ data.cells[i].criterionId = rowCriterionId(inRows[1])}

C12_OneCriterionOneCellEach(text(_)) ==
    /\ Cardinality({j \in 1..Len(data.criteria) :
                      data.criteria[j].id = rowCriterionId(inRows[1])}) = 1
    /\ Len(data.cells) = Cardinality(C10_StrippedKeys)
    /\ \A c \in C10_StrippedKeys :
          /\ Cardinality(C12_CellsOf(c)) = 1
          /\ \A i \in C12_CellsOf(c) :
                LET lines == C12_Lines(Field(inRows[1], c \o SUFFIX_IMAGES)) IN
                /\ data.cells[i].text = text(Field(inRows[1], c \o SUFFIX_TEXT))
                /\ Len(data.cells[i].images) = Len(lines)
                /\ \A n \in 1..Len(lines) :
                      data.cells[i].images[n].url = normalizeImageUrl(lines[n])

C12_Verbatim(t) == t

C13_EveryPairHasACell(kept, id(_, _)) ==
    \A i \in kept : \A c \in 1..Len(data.courses) :
        \E j \in 1..Len(data.cells) :
            /\ data.cells[j].courseId = data.courses[c].id
            /\ data.cells[j].criterionId = id(inRows[i], i - 1)

C13_AppKeptRows == {i \in 1..Len(inRows) : rowName(inRows[i]) # <<>>}

C13_UnconditionalEmission ==
    /\ bpc = "built" =>
          /\ Len(data.cells) = Cardinality(C9_KeptRows) * Len(data.courses)
          /\ C13_EveryPairHasACell(C9_KeptRows, rowId)
    /\ bpc = "builtApp" =>
          /\ Len(data.cells) = Len(data.criteria) * Len(data.courses)
          /\ C13_EveryPairHasACell(C13_AppKeptRows, appRowId)

(***************************************************************************)
(* Controller: the CompetitorMatrix component.                             *)
(*                                                                         *)
(* The remote side is outside the program: the tab index and each data     *)
(* sheet answer with one of the contents below, a fetch may fail, and the  *)
(* write endpoint answers a POST with one of ResponsePool or not at all.   *)
(***************************************************************************)
TABS_INDEX_SHEET == <<"_", "_", "t", "a", "b", "s">>
K_sheet == <<"s", "h", "e", "e", "t">>
K_label == <<"l", "a", "b", "e", "l">>
\* "лист", "вкладка", "название" (transliterated)
SHEET_ALIASES == <<K_sheet, <<"l", "i", "s", "t">>, <<"t", "a", "b">>, <<"s", "h", "e", "e", "t", "_", "n", "a", "m", "e">>>>
LABEL_ALIASES == <<K_label, <<"v", "k", "l", "a", "d", "k", "a">>, <<"n", "a", "z", "v", "a", "n", "i", "e">>>>
TAB_LABEL_PREFIX == <<"T", "a", "b", " ">>
UNAUTHORIZED == <<"U", "N", "A", "U", "T", "H", "O", "R", "I", "Z", "E", "D">>

SheetA == <<"S", "A">>
SheetB == <<"S", "B">>
TabA == <<"A">>
TabB == <<"B">>

\* what the __tabs sheet may hold: no record, a record without a sheet, two
\* tabs, two records with the same label
TabIndexContents ==
    {<<>>,
     <<(K_label :> <<"X">>)>>,
     <<(<<"S", "h", "e", "e", "t", " ">> :> SheetA @@ <<"L", "a", "b", "e", "l">> :> <<" ", "A", " ">>),
       (<<"S", "h", "e", "e", "t", " ">> :> SheetB @@ <<"L", "a", "b", "e", "l">> :> TabB)>>,
     <<(K_sheet :> SheetA @@ K_label :> TabA), (K_sheet :> SheetB @@ K_label :> TabA)>>}

\* what each data sheet may hold: sheet A one criterion with a filled cell,
\* sheet B two records that carry the same criterion id
RowsA ==
    <<(K_criterion_id :> <<"k", "a">> @@ K_criterion :> <<"a">>
        @@ <<"a", "1", "_", "t", "e", "x", "t">> :> <<"h", "i">>
        @@ <<"a", "1", "_", "i", "m", "a", "g", "e", "s">> :> <<"/", "f", "i", "l", "e", "/", "d", "/", "a", "b">> \o <<"\n">> \o <<"y", ".", "p", "n", "g">>)>>

RowsB ==
    <<(K_criterion_id :> <<"k", "b">> @@ K_criterion :> <<"b">>
        @@ <<"b", "1", "_", "t", "e", "x", "t">> :> <<>> @@ <<"b", "1", "_", "i", "m", "a", "g", "e", "s">> :> <<>>),
      (K_criterion_id :> <<"k", "b">> @@ K_section :> LEGACY_MISC_GROUP
        @@ <<"b", "1", "_", "t", "e", "x", "t">> :> <<"o", "l", "d">> @@ <<"b", "1", "_", "i", "m", "a", "g", "e", "s">> :> <<>>)>>

SheetContents(sheet) ==
    IF sheet = SheetA THEN {RowsA} ELSE IF sheet = SheetB THEN {RowsB} ELSE {<<>>}

\* what the user may type into the edit dialog: text and image lines
DraftPool ==
    {[text |-> <<"n", "e", "w">>, images |-> <<>>],
     [text |-> <<>>,
      images |-> <<" ", "?", "i", "d", "=", "q", " ">> \o <<"\n", " ", "\r", "\n">>
                 \o <<"z", ".", "p", "n", "g">>]}

\* what the user may answer to window.prompt: Cancel, nothing, a credential
PromptAnswers == {NULL, "", "k1"}

\* bodies the write endpoint may answer with: JSON {ok, error?} (error <<>>
\* when the body has none), or text that is not JSON
ResponsePool ==
    {[json |-> TRUE, ok |-> TRUE, error |-> <<>>],
     [json |-> TRUE, ok |-> FALSE, error |-> UNAUTHORIZED],
     [json |-> TRUE, ok |-> FALSE, error |-> <<"E", "r", "r", "o", "r", ":", " ", "u", "n", "a", "u", "t", "h", "o", "r", "i", "z", "e", "d">>],
     [json |-> TRUE, ok |-> FALSE, error |-> <<"d", "e", "n", "i", "e", "d">>],
     [json |-> FALSE, ok |-> FALSE, error |-> <<>>]}

toUpperChar(c) ==
    CASE c = "a" -> "A" [] c = "d" -> "D" [] c = "e" -> "E" [] c = "h" -> "H"
      [] c = "i" -> "I" [] c = "n" -> "N" [] c = "o" -> "O" [] c = "r" -> "R"
      [] c = "t" -> "T" [] c = "u" -> "U" [] c = "z" -> "Z"
      [] OTHER -> c

toLowerChar(c) ==
    CASE c = "S" -> "s" [] c = "L" -> "l" [] c = "T" -> "t" [] c = "X" -> "x"
      [] OTHER -> c

toUpperCase(s) == [i \in 1..Len(s) |-> toUpperChar(s[i])]
toLowerCase(s) == [i \in 1..Len(s) |-> toLowerChar(s[i])]

includes(s, sub) ==
    \E p \in 1..(Len(s) - Len(sub) + 1) : SubSeq(s, p, p + Len(sub) - 1) = sub

\* json && typeof json.error === "string" &&
\* json.error.toUpperCase().includes("UNAUTHORIZED")
isUnauthorized(resp) ==
    /\ resp.json
    /\ includes(toUpperCase(resp.error), UNAUTHORIZED)

(***************************************************************************)
(* Tab index builder.                                                      *)
(***************************************************************************)
\* keys[alias]: the record's key whose lower-cased, trimmed form is the alias,
\* <<>> for undefined
\* (the model's records have no two keys with the same form)
keyOf(r, alias) ==
    LET hits == {k \in DOMAIN r : trim(toLowerCase(k)) = alias}
    IN IF hits = {} THEN <<>> ELSE CHOOSE k \in hits : TRUE

\* keys.a1 ?? keys.a2 ?? ... ?? fallback
RECURSIVE firstKey(_, _, _)
firstKey(r, aliases, fallback) ==
    IF aliases = <<>> THEN fallback
    ELSE IF keyOf(r, Head(aliases)) # <<>> THEN keyOf(r, Head(aliases))
    ELSE firstKey(r, Tail(aliases), fallback)

tabSheet(r) == trim(Field(r, firstKey(r, SHEET_ALIASES, K_sheet)))

tabLabel(r, idx) ==
    OrElse(OrElse(trim(Field(r, firstKey(r, LABEL_ALIASES, K_label))), tabSheet(r)),
           TAB_LABEL_PREFIX \o numToStr(idx + 1))

\* rows.forEach((r, idx) => ...) over the first n records: t and map
RECURSIVE tabsLoop(_, _)
tabsLoop(rows, n) ==
    IF n = 0 THEN [t |-> <<>>, map |-> <<>>]
    ELSE LET prev == tabsLoop(rows, n - 1)
             sheet == tabSheet(rows[n])
             id == tabLabel(rows[n], n - 1)
         IN IF sheet = <<>> THEN prev
            ELSE [t |-> Append(prev.t, [id |-> id, label |-> id]),
                  map |-> [k \in DOMAIN prev.map \cup {id} |->
                             IF k = id THEN sheet ELSE prev.map[k]]]

(***************************************************************************)
(* Rendering.                                                              *)
(***************************************************************************)
\* neither the error view nor the loading view is returned
GridRendered ==
    /\ loadError = NULL
    /\ ~(loading /\ data.criteria = <<>>)

\* the criteria the grid shows rows for (groupedCriteria skips the course row)
groupedCriteriaIds ==
    {data.criteria[i].id : i \in
        {i \in 1..Len(data.criteria) :
            /\ data.criteria[i].id # COURSE_CRIT_ID
            /\ data.criteria[i].group # COURSE_GROUP}}

\* the legacy label is kept as a group of its own
displayGroup_noRemap(c) == IF c.group # <<>> THEN c.group ELSE MISC_GROUP

\* const g = c.group ? (c.group === "XI. Прочее" ? MISC_GROUP : c.group) : MISC_GROUP
displayGroup(c) ==
    IF c.group # <<>>
    THEN (IF c.group = LEGACY_MISC_GROUP THEN MISC_GROUP ELSE c.group)
    ELSE MISC_GROUP

\* the rows the loop does not skip
groupedRows(criteria) ==
    SelectSeq(criteria, LAMBDA c : ~(c.id = COURSE_CRIT_ID \/ c.group = COURSE_GROUP))

\* groupedCriteria: the object of the groups, label to the criteria pushed
\* under it in the order of the list; the catch-all group is always a key
groupedCriteria(criteria) ==
    LET shown == groupedRows(criteria)
        labels == {displayGroup(shown[i]) : i \in 1..Len(shown)} \cup {MISC_GROUP}
    IN [g \in labels |-> SelectSeq(shown, LAMBDA c : displayGroup(c) = g)]

includesId(list, id) == \E i \in 1..Len(list) : list[i] = id

\* data.courses.filter((c) => !hiddenCourses.includes(c.id))
visibleCourseIds ==
    {data.courses[i].id : i \in
        {i \in 1..Len(data.courses) : ~includesId(hiddenCourses, data.courses[i].id)}}

RECURSIVE joinLines(_)
joinLines(lines) ==
    IF lines = <<>> THEN <<>>
    ELSE IF Len(lines) = 1 THEN lines[1]
    ELSE lines[1] \o <<"\n">> \o joinLines(Tail(lines))

(***************************************************************************)
(* The active-tab effect: it runs when activeTab changes to tab.           *)
(***************************************************************************)
StartLoad(tab, map) ==
    /\ nLoads' = nLoads + 1
    /\ IF tab \in DOMAIN map /\ map[tab] # <<>>
       THEN /\ loading' = TRUE
            /\ loadError' = NULL
            /\ loads' = loads \cup {[id |-> nLoads + 1, tab |-> tab, sheet |-> map[tab]]}
       ELSE \* throw new Error("Лист не найден для вкладки")
            /\ loading' = FALSE
            /\ loadError' = "SheetNotFound"
            /\ loads' = loads

(***************************************************************************)
(* The tab-index effect.                                                   *)
(***************************************************************************)
\* fetchGViz(TABS_INDEX_SHEET) throws: no answer, a non-success status
TabsFetchFails ==
    /\ tabsPc = "fetching"
    /\ tabsPc' = "done"
    /\ loadError' = "FetchFailed"
    /\ UNCHANGED <<opsVars, tabs, tabToSheet, activeTab, data, loading, loads, nLoads, edit,
                   draftText, draftImages, apiKey, saves, nSaves, lastWrite, inRows, bpc, remote>>

\* the empty result is swallowed: no error is set
TabsFetchedEmpty_silent(rows) ==
    /\ tabsPc = "fetching"
    /\ rows = <<>> \/ tabsLoop(rows, Len(rows)).t = <<>>
    /\ tabsPc' = "done"
    /\ UNCHANGED <<opsVars, tabs, tabToSheet, activeTab, data, loading, loadError,
                   loads, nLoads, edit, draftText, draftImages, apiKey, saves,
                   nSaves, lastWrite, inRows, bpc, remote>>

\* The index has no record (the first throw), or none with a sheet: then
\* setTabs(t) and setTabToSheet(map) run with the empty t and map before the
\* second throw.  The catch sets loadError; setActiveTab is not reached.
TabsFetchedEmpty(rows) ==
    LET built == tabsLoop(rows, Len(rows)) IN
    /\ tabsPc = "fetching"
    /\ rows = <<>> \/ built.t = <<>>
    /\ tabsPc' = "done"
    /\ IF rows = <<>> THEN UNCHANGED <<tabs, tabToSheet>>
       ELSE tabs' = built.t /\ tabToSheet' = built.map
    /\ loadError' = "NoTabs"
    /\ UNCHANGED <<opsVars, activeTab, data, loading, loads, nLoads, edit,
                   draftText, draftImages, apiKey, saves, nSaves, lastWrite, inRows, bpc, remote>>

TabsFetched(rows) ==
    LET built == tabsLoop(rows, Len(rows)) IN
    /\ tabsPc = "fetching"
    /\ rows # <<>>
    /\ built.t # <<>>
    /\ tabsPc' = "done"
    /\ tabs' = built.t
    /\ tabToSheet' = built.map
    \* setActiveTab((prev) => (prev && map[prev] ? prev : t[0].id)), prev = ""
    /\ activeTab' = built.t[1].id
    /\ StartLoad(built.t[1].id, built.map)
    /\ UNCHANGED <<opsVars, data, edit, draftText, draftImages, apiKey, saves, nSaves, lastWrite, inRows, bpc, remote>>

\* a click on the button of another tab
SwitchTab(tab) ==
    /\ GridRendered
    /\ nLoads < MaxLoads
    /\ \E i \in 1..Len(tabs) : tabs[i].id = tab
    /\ tab # activeTab
    /\ activeTab' = tab
    /\ StartLoad(tab, tabToSheet)
    /\ UNCHANGED <<opsVars, tabsPc, tabs, tabToSheet, data, edit, draftText, draftImages,
                   apiKey, saves, nSaves, lastWrite, inRows, bpc, remote>>

\* fetchGViz answers with the sheet's rows: setData(rowsToMatrix(rows)),
\* finally setLoading(false)
LoadDone(l, rows) ==
    /\ l \in loads
    /\ rows \in SheetContents(l.sheet)
    /\ loads' = loads \ {l}
    /\ data' = rowsToMatrix(rows)
    /\ loading' = FALSE
    /\ UNCHANGED <<opsVars, tabsPc, tabs, tabToSheet, activeTab, loadError, nLoads, edit,
                   draftText, draftImages, apiKey, saves, nSaves, lastWrite, inRows, bpc, remote>>

\* the answer lacks the setResponse(...) envelope: fetchGViz returns []
LoadNoEnvelope(l) ==
    /\ l \in loads
    /\ loads' = loads \ {l}
    /\ data' = rowsToMatrix(<<>>)
    /\ loading' = FALSE
    /\ UNCHANGED <<opsVars, tabsPc, tabs, tabToSheet, activeTab, loadError, nLoads, edit,
                   draftText, draftImages, apiKey, saves, nSaves, lastWrite, inRows, bpc, remote>>

\* fetchGViz throws: catch sets loadError, finally setLoading(false)
LoadFails(l) ==
    /\ l \in loads
    /\ loads' = loads \ {l}
    /\ loadError' = "FetchFailed"
    /\ loading' = FALSE
    /\ UNCHANGED <<opsVars, tabsPc, tabs, tabToSheet, activeTab, data, nLoads, edit,
                   draftText, draftImages, apiKey, saves, nSaves, lastWrite, inRows, bpc, remote>>

(***************************************************************************)
(* Editing a cell.                                                         *)
(***************************************************************************)
\* onEdit of the card of cell (courseId, criterionId)
OpenEdit(courseId, criterionId) ==
    LET cell == getCell(data, courseId, criterionId) IN
    /\ GridRendered
    /\ edit = <<>>
    /\ courseId \in visibleCourseIds
    /\ criterionId \in groupedCriteriaIds
    /\ edit' = <<[courseId |-> courseId, criterionId |-> criterionId]>>
    /\ draftText' = IF cell = <<>> THEN <<>> ELSE cell[1].text
    /\ draftImages' =
          IF cell = <<>> THEN <<>>
          ELSE joinLines([i \in 1..Len(cell[1].images) |-> cell[1].images[i].url])
    /\ UNCHANGED <<opsVars, tabsPc, tabs, tabToSheet, activeTab, data, loading, loadError,
                   loads, nLoads, apiKey, saves, nSaves, lastWrite, inRows, bpc, remote>>

\* onChange of the two textareas
SetDraft(d) ==
    /\ GridRendered
    /\ edit # <<>>
    /\ draftText' = d.text
    /\ draftImages' = d.images
    /\ UNCHANGED <<opsVars, tabsPc, tabs, tabToSheet, activeTab, data, loading, loadError,
                   loads, nLoads, edit, apiKey, saves, nSaves, lastWrite, inRows, bpc, remote>>

\* the Cancel button, or a click on the dialog's backdrop
CancelEdit ==
    /\ GridRendered
    /\ edit # <<>>
    /\ edit' = <<>>
    /\ UNCHANGED <<opsVars, tabsPc, tabs, tabToSheet, activeTab, data, loading, loadError,
                   loads, nLoads, draftText, draftImages, apiKey, saves, nSaves, lastWrite, inRows, bpc, remote>>

newCell(courseId, criterionId, text, imagesLines) ==
    [courseId |-> courseId, criterionId |-> criterionId, text |-> text,
     images |-> toImages(imageLines(imagesLines))]

cellIndex(prev, courseId, criterionId) ==
    LET hits == {i \in 1..Len(prev.cells) :
                    /\ prev.cells[i].courseId = courseId
                    /\ prev.cells[i].criterionId = criterionId}
    IN IF hits = {} THEN 0 ELSE Leftmost(hits)

\* a merge of the draft into the prior cell, field by field
saveCellLocal_merge(prev, courseId, criterionId, text, imagesLines) ==
    LET idx == cellIndex(prev, courseId, criterionId)
        cell == newCell(courseId, criterionId, text, imagesLines)
        merged == IF idx > 0 /\ cell.images = <<>>
                  THEN [cell EXCEPT !.images = prev.cells[idx].images]
                  ELSE cell
    IN IF idx > 0 THEN [prev EXCEPT !.cells[idx] = merged]
       ELSE [prev EXCEPT !.cells = Append(prev.cells, merged)]

\* setData((prev) => ...): replace the first matching cell, or push
saveCellLocal(prev, courseId, criterionId, text, imagesLines) ==
    LET idx == cellIndex(prev, courseId, criterionId)
        cell == newCell(courseId, criterionId, text, imagesLines)
    IN IF idx > 0 THEN [prev EXCEPT !.cells[idx] = cell]
       ELSE [prev EXCEPT !.cells = Append(prev.cells, cell)]

\* localStorage.getItem("gs_api_key") || ""
getApiKey == apiKey

critName(d, criterionId) ==
    LET hits == {i \in 1..Len(d.criteria) : d.criteria[i].id = criterionId}
    IN IF hits = {} THEN <<>> ELSE d.criteria[Leftmost(hits)].name

\* tabToSheet[activeTab] (<<>> stands for undefined: no sheet name is empty)
sheetName == IF activeTab \in DOMAIN tabToSheet THEN tabToSheet[activeTab] ELSE <<>>

\* A saveCell call awaiting a response: the payload, the apiKey of each
\* request sent (keys), the prompts shown, the prompt's answer (NULL before
\* it) and the position (first: awaiting the first response, retry: awaiting
\* the retry's).  updatedBy is left out of the payload.
SaveCall(courseId, criterionId) ==
    [courseId |-> courseId, criterionId |-> criterionId,
     tab |-> sheetName, criterion |-> critName(data, criterionId),
     text |-> draftText, images |-> imageLines(draftImages),
     keys |-> <<getApiKey>>, prompts |-> 0, answer |-> NULL, pc |-> "first"]

\* how a finished call ended: requests sent, prompts shown, the prompt's
\* answer and the outcome of each request
Ended(call, outcome) ==
    [reqs |-> Len(call.keys), prompts |-> call.prompts, answer |-> call.answer,
     log |-> IF call.pc = "retry" THEN <<"unauthorized", outcome>> ELSE <<outcome>>]

RemoveAt(s, i) == SubSeq(s, 1, i - 1) \o SubSeq(s, i + 1, Len(s))

\* The Save button: the local update, the dialog reset and the first POST.
SaveCell ==
    /\ GridRendered
    /\ edit # <<>>
    /\ nSaves < MaxSaves
    /\ data' = saveCellLocal(data, edit[1].courseId, edit[1].criterionId,
                             draftText, draftImages)
    /\ edit' = <<>>
    /\ saves' = Append(saves, SaveCall(edit[1].courseId, edit[1].criterionId))
    /\ nSaves' = nSaves + 1
    /\ UNCHANGED <<opsVars, tabsPc, tabs, tabToSheet, activeTab, loading, loadError, loads,
                   nLoads, draftText, draftImages, apiKey, lastWrite, inRows, bpc, remote>>

Outcome(resp) ==
    IF isUnauthorized(resp) THEN "unauthorized"
    ELSE IF resp.json /\ resp.ok THEN "ok" ELSE "error"

\* a rollback of the optimistic update on a failed write
WriteFails_rollback(i) ==
    /\ i \in 1..Len(saves)
    /\ saves' = RemoveAt(saves, i)
    /\ lastWrite' = Ended(saves[i], "failed")
    /\ data' = [data EXCEPT !.cells =
                  SelectSeq(@, LAMBDA c : ~(c.courseId = saves[i].courseId
                                            /\ c.criterionId = saves[i].criterionId))]
    /\ UNCHANGED <<opsVars, tabsPc, tabs, tabToSheet, activeTab, loading, loadError, loads,
                   nLoads, edit, draftText, draftImages, apiKey, nSaves, inRows, bpc, remote>>

\* the failed write is shown as a load error
WriteFails_surfaced(i) ==
    /\ i \in 1..Len(saves)
    /\ saves' = RemoveAt(saves, i)
    /\ lastWrite' = Ended(saves[i], "failed")
    /\ loadError' = "FetchFailed"
    /\ UNCHANGED <<opsVars, tabsPc, tabs, tabToSheet, activeTab, data, loading,
                   loads, nLoads, edit, draftText, draftImages, apiKey, nSaves,
                   inRows, bpc, remote>>

\* fetch rejects (the endpoint is unreachable), on the first request or on
\* the retry: the catch logs a warning
WriteFails(i) ==
    /\ i \in 1..Len(saves)
    /\ saves' = RemoveAt(saves, i)
    /\ lastWrite' = Ended(saves[i], "failed")
    /\ UNCHANGED <<opsVars, tabsPc, tabs, tabToSheet, activeTab, data, loading, loadError,
                   loads, nLoads, edit, draftText, draftImages, apiKey, nSaves,
                   inRows, bpc, remote>>

\* the first response carries no authorization failure
WriteAnswered(i, resp) ==
    /\ i \in 1..Len(saves)
    /\ saves[i].pc = "first"
    /\ ~isUnauthorized(resp)
    /\ saves' = RemoveAt(saves, i)
    /\ lastWrite' = Ended(saves[i], Outcome(resp))
    /\ UNCHANGED <<opsVars, tabsPc, tabs, tabToSheet, activeTab, data, loading, loadError,
                   loads, nLoads, edit, draftText, draftImages, apiKey, nSaves,
                   inRows, bpc, remote>>

\* the retry is sent without the credential being stored
WriteUnauthorized_noStore(i, resp, key) ==
    /\ i \in 1..Len(saves)
    /\ saves[i].pc = "first"
    /\ isUnauthorized(resp)
    /\ IF key # NULL /\ key # ""
       THEN /\ saves' = [saves EXCEPT ![i].pc = "retry", ![i].prompts = @ + 1,
                                      ![i].answer = key,
                                      ![i].keys = Append(@, key)]
            /\ UNCHANGED <<apiKey, lastWrite>>
       ELSE /\ saves' = RemoveAt(saves, i)
            /\ lastWrite' = Ended([saves[i] EXCEPT !.prompts = @ + 1, !.answer = key],
                                  "unauthorized")
            /\ apiKey' = apiKey
    /\ UNCHANGED <<opsVars, tabsPc, tabs, tabToSheet, activeTab, data, loading, loadError,
                   loads, nLoads, edit, draftText, draftImages, nSaves, inRows, bpc, remote>>

\* the first response signals an authorization failure: window.prompt blocks
\* until the user answers; with a non-empty answer setApiKey(key) and the
\* retry follow
WriteUnauthorized(i, resp, key) ==
    /\ i \in 1..Len(saves)
    /\ saves[i].pc = "first"
    /\ isUnauthorized(resp)
    /\ IF key # NULL /\ key # ""
       THEN /\ apiKey' = key
            /\ saves' = [saves EXCEPT ![i].pc = "retry", ![i].prompts = @ + 1,
                                      ![i].answer = key,
                                      ![i].keys = Append(@, key)]
            /\ lastWrite' = lastWrite
       ELSE /\ saves' = RemoveAt(saves, i)
            /\ lastWrite' = Ended([saves[i] EXCEPT !.prompts = @ + 1, !.answer = key],
                                  "unauthorized")
            /\ apiKey' = apiKey
    /\ UNCHANGED <<opsVars, tabsPc, tabs, tabToSheet, activeTab, data, loading, loadError,
                   loads, nLoads, edit, draftText, draftImages, nSaves, inRows, bpc, remote>>

\* the retry's response is handled like the first: prompt and send again
RetryAnswered_again(i, resp) ==
    /\ i \in 1..Len(saves)
    /\ saves[i].pc = "retry"
    /\ saves' = RemoveAt(saves, i)
    /\ lastWrite' =
          IF isUnauthorized(resp)
          THEN Ended([saves[i] EXCEPT !.prompts = @ + 1, !.keys = Append(@, apiKey)],
                     Outcome(resp))
          ELSE Ended(saves[i], Outcome(resp))
    /\ UNCHANGED <<opsVars, tabsPc, tabs, tabToSheet, activeTab, data, loading, loadError,
                   loads, nLoads, edit, draftText, draftImages, apiKey, nSaves,
                   inRows, bpc, remote>>

\* the retry's response arrives: it is awaited and not read
RetryAnswered(i, resp) ==
    /\ i \in 1..Len(saves)
    /\ saves[i].pc = "retry"
    /\ saves' = RemoveAt(saves, i)
    /\ lastWrite' = Ended(saves[i], Outcome(resp))
    /\ UNCHANGED <<opsVars, tabsPc, tabs, tabToSheet, activeTab, data, loading, loadError,
                   loads, nLoads, edit, draftText, draftImages, apiKey, nSaves,
                   inRows, bpc, remote>>

(***************************************************************************)
(* Adding a criterion.                                                     *)
(***************************************************************************)
CRITERION_ID_PREFIX == <<"c", "r", "-">>
UPSERT_CRITERION == "upsertCriterion"
UPSERT_CELL == "upsertCell"

\* what the user may type into the add-criterion form
FormPool ==
    {[name |-> <<" ">>, description |-> <<"d">>, filledBy |-> <<>>],
     [name |-> <<" ", "n", " ">>, description |-> <<" ", "d">>, filledBy |-> <<"m", "e", " ">>]}

\* the button in the header of the catch-all group
OpenAddCriterion ==
    /\ GridRendered
    /\ ~addCriterionOpen
    /\ addCriterionOpen' = TRUE
    /\ UNCHANGED <<tabsPc, tabs, tabToSheet, activeTab, data, loading, loadError,
                   loads, nLoads, edit, draftText, draftImages, apiKey, saves,
                   nSaves, lastWrite, inRows, bpc, newCriterion, clock, adds,
                   nAdds, hiddenCourses, storage, hiddenIn, courseAdds, nCourseAdds, remote>>

\* onChange of the form's inputs
SetNewCriterion(f) ==
    /\ GridRendered
    /\ addCriterionOpen
    /\ newCriterion' = f
    /\ UNCHANGED <<tabsPc, tabs, tabToSheet, activeTab, data, loading, loadError,
                   loads, nLoads, edit, draftText, draftImages, apiKey, saves,
                   nSaves, lastWrite, inRows, bpc, addCriterionOpen, clock, adds,
                   nAdds, hiddenCourses, storage, hiddenIn, courseAdds, nCourseAdds, remote>>

\* the form's Cancel button, or a click on the dialog's backdrop
CancelAddCriterion ==
    /\ GridRendered
    /\ addCriterionOpen
    /\ addCriterionOpen' = FALSE
    /\ UNCHANGED <<tabsPc, tabs, tabToSheet, activeTab, data, loading, loadError,
                   loads, nLoads, edit, draftText, draftImages, apiKey, saves,
                   nSaves, lastWrite, inRows, bpc, newCriterion, clock, adds,
                   nAdds, hiddenCourses, storage, hiddenIn, courseAdds, nCourseAdds, remote>>

\* `cr-${Date.now()}`
newCriterionId(now) == CRITERION_ID_PREFIX \o numToStr(now)

upsertCriterionRequest(id, name, description, filledBy) ==
    [action |-> UPSERT_CRITERION, apiKey |-> getApiKey, tab |-> sheetName,
     criterionId |-> id, section |-> MISC_GROUP, criterion |-> name,
     description |-> description, filled_by |-> filledBy]

upsertCellRequest(tab, courseId, id) ==
    [action |-> UPSERT_CELL, apiKey |-> getApiKey, tab |-> tab,
     courseId |-> courseId, criterionId |-> id, text |-> <<>>, images |-> <<>>]

\* A call awaiting its requests: the id, the sheet name and the course ids
\* the call took from its render, the requests awaited (pending) and the
\* position (criterion: awaiting upsertCriterion, cells: awaiting the primes).
AddCall(id, name, description, filledBy) ==
    [pc |-> "criterion", id |-> id, tab |-> sheetName,
     courses |-> [i \in 1..Len(data.courses) |-> data.courses[i].id],
     pending |-> <<upsertCriterionRequest(id, name, description, filledBy)>>]

\* the local insertion, the reset of the form and the upsertCriterion POST
addCriterionInsert(name, now) ==
    LET description == trim(newCriterion.description)
        filledBy == trim(newCriterion.filledBy)
        id == newCriterionId(now)
    IN
    /\ clock' = now
    /\ data' = [data EXCEPT !.criteria =
                  Append(@, [id |-> id, name |-> name, description |-> description,
                             filledBy |-> filledBy, group |-> MISC_GROUP])]
    /\ newCriterion' = EmptyForm
    /\ addCriterionOpen' = FALSE
    /\ adds' = Append(adds, AddCall(id, name, description, filledBy))

\* the criterion is added whatever the name is
addCriterionLocal_noNameTest(now) ==
    /\ GridRendered
    /\ addCriterionOpen
    /\ nAdds < MaxAdds
    /\ now \in clock..MaxClock
    /\ now > 0
    /\ nAdds' = nAdds + 1
    /\ addCriterionInsert(trim(newCriterion.name), now)
    /\ UNCHANGED <<tabsPc, tabs, tabToSheet, activeTab, loading, loadError, loads,
                   nLoads, edit, draftText, draftImages, apiKey, saves, nSaves,
                   lastWrite, inRows, bpc, hiddenCourses, storage, hiddenIn,
                   courseAdds, nCourseAdds, remote>>

\* The form's Add button, up to the first await: the test of the name, then
\* the insertion.  now is the value of Date.now().
addCriterionLocal(now) ==
    LET name == trim(newCriterion.name) IN
    /\ GridRendered
    /\ addCriterionOpen
    /\ nAdds < MaxAdds
    /\ now \in clock..MaxClock
    /\ now > 0
    /\ nAdds' = nAdds + 1
    /\ IF name = <<>>
       THEN UNCHANGED <<data, newCriterion, addCriterionOpen, clock, adds>>
       ELSE addCriterionInsert(name, now)
    /\ UNCHANGED <<tabsPc, tabs, tabToSheet, activeTab, loading, loadError, loads,
                   nLoads, edit, draftText, draftImages, apiKey, saves, nSaves,
                   lastWrite, inRows, bpc, hiddenCourses, storage, hiddenIn,
                   courseAdds, nCourseAdds, remote>>

\* only the visible courses are primed
primeRequests_visible(call) ==
    LET shown == SelectSeq(call.courses, LAMBDA c : ~includesId(hiddenCourses, c))
    IN [i \in 1..Len(shown) |-> upsertCellRequest(call.tab, shown[i], call.id)]

\* (data.courses || []).map((c) => fetch(... upsertCell ...))
primeRequests(call) ==
    [i \in 1..Len(call.courses) |-> upsertCellRequest(call.tab, call.courses[i], call.id)]

\* the upsertCriterion fetch resolves or rejects (the catch logs a warning):
\* one upsertCell POST per course goes out
CriterionWriteSettled(i) ==
    /\ i \in 1..Len(adds)
    /\ adds[i].pc = "criterion"
    /\ adds' = [adds EXCEPT ![i].pc = "cells", ![i].pending = primeRequests(adds[i])]
    /\ UNCHANGED <<tabsPc, tabs, tabToSheet, activeTab, data, loading, loadError,
                   loads, nLoads, edit, draftText, draftImages, apiKey, saves,
                   nSaves, lastWrite, inRows, bpc, addCriterionOpen, newCriterion,
                   clock, nAdds, hiddenCourses, storage, hiddenIn, courseAdds,
                   nCourseAdds, remote>>

\* Promise.all resolves, or rejects with the first failed fetch (the catch
\* logs a warning): the call returns
PrimeWritesSettled(i) ==
    /\ i \in 1..Len(adds)
    /\ adds[i].pc = "cells"
    /\ adds' = RemoveAt(adds, i)
    /\ UNCHANGED <<tabsPc, tabs, tabToSheet, activeTab, data, loading, loadError,
                   loads, nLoads, edit, draftText, draftImages, apiKey, saves,
                   nSaves, lastWrite, inRows, bpc, addCriterionOpen, newCriterion,
                   clock, nAdds, hiddenCourses, storage, hiddenIn, courseAdds,
                   nCourseAdds, remote>>

(***************************************************************************)
(* Hiding courses.  hideCourse is the component's; the button that shows   *)
(* a hidden course again and addCourse are those of the application's      *)
(* component (src/src/CompetitorMatrix.tsx).                               *)
(***************************************************************************)
HIDDEN_KEY == <<"h", "i", "d", "d", "e", "n", "C", "o", "u", "r", "s", "e", "I", "d", "s">>
NO_TAB == <<"_", "_", "n", "a", "_", "_">>
COURSE_ID_PREFIX == <<"c">>

\* `${base}:${activeTab || "__na__"}`
storageKey(base) == base \o <<":">> \o OrElse(activeTab, NO_TAB)

\* localStorage.setItem(key, JSON.stringify(list))
setItem(key, list) ==
    [k \in DOMAIN storage \cup {key} |-> IF k = key THEN list ELSE storage[k]]

\* hiding a course removes it from the matrix
hideCourse_remove(id) ==
    /\ GridRendered
    /\ id \in visibleCourseIds
    /\ hiddenCourses' = Append(hiddenCourses, id)
    /\ storage' = setItem(HIDDEN_KEY, Append(hiddenCourses, id))
    /\ hiddenIn' = hiddenIn \cup {<<activeTab, id>>}
    /\ data' = [data EXCEPT !.courses = SelectSeq(@, LAMBDA c : c.id # id)]
    /\ UNCHANGED <<tabsPc, tabs, tabToSheet, activeTab, loading, loadError,
                   loads, nLoads, edit, draftText, draftImages, apiKey, saves,
                   nSaves, lastWrite, inRows, bpc, addCriterionOpen, newCriterion,
                   clock, adds, nAdds, courseAdds, nCourseAdds, remote>>

\* onHide of a course header
hideCourse(id) ==
    /\ GridRendered
    /\ id \in visibleCourseIds
    /\ hiddenCourses' = Append(hiddenCourses, id)
    /\ storage' = setItem(HIDDEN_KEY, Append(hiddenCourses, id))
    /\ hiddenIn' = hiddenIn \cup {<<activeTab, id>>}
    /\ UNCHANGED <<tabsPc, tabs, tabToSheet, activeTab, data, loading, loadError,
                   loads, nLoads, edit, draftText, draftImages, apiKey, saves,
                   nSaves, lastWrite, inRows, bpc, addCriterionOpen, newCriterion,
                   clock, adds, nAdds, courseAdds, nCourseAdds, remote>>

\* hiddenCourseObjs: data.courses.filter((c) => hiddenCourses.includes(c.id))
hiddenCourseIds ==
    {data.courses[i].id : i \in
        {i \in 1..Len(data.courses) : includesId(hiddenCourses, data.courses[i].id)}}

\* the button of a course in the list of hidden courses
unhideCourse(id) ==
    LET next == SelectSeq(hiddenCourses, LAMBDA x : x # id) IN
    /\ GridRendered
    /\ id \in hiddenCourseIds
    /\ hiddenCourses' = next
    /\ storage' = setItem(storageKey(HIDDEN_KEY), next)
    /\ hiddenIn' = hiddenIn \ {<<activeTab, id>>}
    /\ UNCHANGED <<tabsPc, tabs, tabToSheet, activeTab, data, loading, loadError,
                   loads, nLoads, edit, draftText, draftImages, apiKey, saves,
                   nSaves, lastWrite, inRows, bpc, addCriterionOpen, newCriterion,
                   clock, adds, nAdds, courseAdds, nCourseAdds, remote>>

\* The Add course button, up to the await: the id comes from the number of
\* courses of the render the click happened in, and the addCourse POST goes out.
addCourse ==
    LET nextIndex == Len(data.courses) + 1 IN
    /\ GridRendered
    /\ activeTab # <<>>
    /\ nCourseAdds < MaxCourseAdds
    /\ nCourseAdds' = nCourseAdds + 1
    /\ courseAdds' = Append(courseAdds,
                        [id |-> COURSE_ID_PREFIX \o numToStr(nextIndex),
                         name |-> COURSE_ROW_NAME \o <<" ">> \o numToStr(nextIndex)])
    /\ UNCHANGED <<tabsPc, tabs, tabToSheet, activeTab, data, loading, loadError,
                   loads, nLoads, edit, draftText, draftImages, apiKey, saves,
                   nSaves, lastWrite, inRows, bpc, addCriterionOpen, newCriterion,
                   clock, adds, nAdds, hiddenCourses, storage, hiddenIn, remote>>

\* the addCourse fetch resolves (any status) or rejects: the course is appended
CourseWriteSettled(i) ==
    /\ i \in 1..Len(courseAdds)
    /\ courseAdds' = RemoveAt(courseAdds, i)
    /\ data' = [data EXCEPT !.courses = Append(@, courseAdds[i])]
    /\ UNCHANGED <<tabsPc, tabs, tabToSheet, activeTab, loading, loadError,
                   loads, nLoads, edit, draftText, draftImages, apiKey, saves,
                   nSaves, lastWrite, inRows, bpc, addCriterionOpen, newCriterion,
                   clock, adds, nAdds, hiddenCourses, storage, hiddenIn, nCourseAdds, remote>>

(***************************************************************************)
(* The controller's specification.                                         *)
(***************************************************************************)
Init ==
    /\ tabsPc = "fetching"
    /\ tabs = <<>>
    /\ tabToSheet = <<>>
    /\ activeTab = <<>>
    /\ data = EmptyMatrix
    /\ loading = FALSE
    /\ loadError = NULL
    /\ loads = {}
    /\ nLoads = 0
    /\ edit = <<>>
    /\ draftText = <<>>
    /\ draftImages = <<>>
    /\ apiKey = ""
    /\ saves = <<>>
    /\ nSaves = 0
    /\ lastWrite = NoWrite
    /\ inRows = <<>>
    /\ bpc = "off"
    /\ remote = <<>>
    /\ OpsIdle

Next ==
    \/ TabsFetchFails
    \/ \E rows \in TabIndexContents : TabsFetchedEmpty(rows)
    \/ \E rows \in TabIndexContents : TabsFetched(rows)
    \/ \E tab \in DOMAIN tabToSheet : SwitchTab(tab)
    \/ \E l \in loads : \E rows \in SheetContents(l.sheet) : LoadDone(l, rows)
    \/ \E l \in loads : LoadNoEnvelope(l)
    \/ \E l \in loads : LoadFails(l)
    \/ \E c \in visibleCourseIds : \E k \in groupedCriteriaIds : OpenEdit(c, k)
    \/ \E d \in DraftPool : SetDraft(d)
    \/ CancelEdit
    \/ SaveCell
    \/ \E i \in 1..Len(saves) : WriteFails(i)
    \/ \E i \in 1..Len(saves) : \E resp \in ResponsePool : WriteAnswered(i, resp)
    \/ \E i \in 1..Len(saves) : \E resp \in ResponsePool : \E key \in PromptAnswers :
          WriteUnauthorized(i, resp, key)
    \/ \E i \in 1..Len(saves) : \E resp \in ResponsePool : RetryAnswered(i, resp)

Spec == Init /\ [][Next]_vars

(***************************************************************************)
(* The controller across tab switches: the tab index, the tab loads,       *)
(* addCriterionLocal, hideCourse and the button that shows a hidden course *)
(* again.                                                                  *)
(***************************************************************************)
NextTabs ==
    \/ TabsFetchFails
    \/ \E rows \in TabIndexContents : TabsFetchedEmpty(rows)
    \/ \E rows \in TabIndexContents : TabsFetched(rows)
    \/ \E tab \in DOMAIN tabToSheet : SwitchTab(tab)
    \/ \E l \in loads : \E rows \in SheetContents(l.sheet) : LoadDone(l, rows)
    \/ \E l \in loads : LoadNoEnvelope(l)
    \/ \E l \in loads : LoadFails(l)
    \/ OpenAddCriterion
    \/ \E f \in FormPool : SetNewCriterion(f)
    \/ CancelAddCriterion
    \/ \E now \in 1..MaxClock : addCriterionLocal(now)
    \/ \E i \in 1..Len(adds) : CriterionWriteSettled(i)
    \/ \E i \in 1..Len(adds) : PrimeWritesSettled(i)
    \/ \E id \in visibleCourseIds : hideCourse(id)
    \/ \E id \in hiddenCourseIds : unhideCourse(id)

SpecTabs == Init /\ [][NextTabs]_vars

(***************************************************************************)
(* The controller between two tab loads: the first tab is loaded and the   *)
(* user works on its matrix with saveCell, addCriterionLocal, addCourse,   *)
(* hideCourse and the button that shows a hidden course again.  At most    *)
(* MaxOps calls of saveCell, addCriterionLocal and addCourse are made.     *)
(***************************************************************************)
OpsLeft == nSaves + nAdds + nCourseAdds < MaxOps

NextOps ==
    \/ TabsFetchFails
    \/ \E rows \in TabIndexContents : TabsFetchedEmpty(rows)
    \/ \E rows \in TabIndexContents : TabsFetched(rows)
    \/ \E l \in loads : \E rows \in SheetContents(l.sheet) : LoadDone(l, rows)
    \/ \E l \in loads : LoadNoEnvelope(l)
    \/ \E l \in loads : LoadFails(l)
    \/ \E c \in visibleCourseIds : \E k \in groupedCriteriaIds : OpenEdit(c, k)
    \/ \E d \in DraftPool : SetDraft(d)
    \/ CancelEdit
    \/ OpsLeft /\ SaveCell
    \/ \E i \in 1..Len(saves) : WriteFails(i)
    \/ \E i \in 1..Len(saves) : \E resp \in ResponsePool : WriteAnswered(i, resp)
    \/ \E i \in 1..Len(saves) : \E resp \in ResponsePool : \E key \in PromptAnswers :
          WriteUnauthorized(i, resp, key)
    \/ \E i \in 1..Len(saves) : \E resp \in ResponsePool : RetryAnswered(i, resp)
    \/ OpenAddCriterion
    \/ \E f \in FormPool : SetNewCriterion(f)
    \/ CancelAddCriterion
    \/ \E now \in 1..MaxClock : OpsLeft /\ addCriterionLocal(now)
    \/ \E i \in 1..Len(adds) : CriterionWriteSettled(i)
    \/ \E i \in 1..Len(adds) : PrimeWritesSettled(i)
    \/ \E id \in visibleCourseIds : hideCourse(id)
    \/ \E id \in hiddenCourseIds : unhideCourse(id)
    \/ OpsLeft /\ addCourse
    \/ \E i \in 1..Len(courseAdds) : CourseWriteSettled(i)

SpecOps == Init /\ [][NextOps]_vars

(***************************************************************************)
(* C1.  Tab-switch isolation: once every load that was started has         *)
(* completed (none in error), the matrix is the one built from the rows    *)
(* of the tab switched to last, the active tab, and holds no criterion,    *)
(* course or cell of the other tab, whatever the order in which the        *)
(* fetches completed.  (States without a local edit.)                      *)
(***************************************************************************)
\* the matrices a completed load of tab can leave
C1_BuiltFrom(tab) ==
    {rowsToMatrix(rows) : rows \in SheetContents(tabToSheet[tab]) \cup {<<>>}}

C1_OtherTabs == {tabs[i].id : i \in 1..Len(tabs)} \ {activeTab}

C1_Shares(d, e) ==
    \/ \E i \in 1..Len(d.cells) : \E j \in 1..Len(e.cells) : d.cells[i] = e.cells[j]
    \/ \E i \in 1..Len(d.courses) : \E j \in 1..Len(e.courses) :
          d.courses[i].id = e.courses[j].id
    \/ \E i \in 1..Len(d.criteria) : \E j \in 1..Len(e.criteria) :
          /\ d.criteria[i].id # COURSE_CRIT_ID
          /\ d.criteria[i].id = e.criteria[j].id

C1_TabSwitchIsolation ==
    (activeTab # <<>> /\ loads = {} /\ loadError = NULL /\ nSaves = 0) =>
        /\ data \in C1_BuiltFrom(activeTab)
        /\ \A t \in C1_OtherTabs : \A rows \in SheetContents(tabToSheet[t]) :
              ~C1_Shares(data, rowsToMatrix(rows))

(***************************************************************************)
(* C6.  Load state machine: in every state in which the controller is      *)
(* neither loading nor in error, the matrix was built from the rows of     *)
(* the currently active tab.  (States without a local edit.)               *)
(***************************************************************************)
C6_ReadyStateIsActiveTabs ==
    (activeTab # <<>> /\ ~loading /\ loadError = NULL /\ nSaves = 0) =>
        \E rows \in SheetContents(tabToSheet[activeTab]) \cup {<<>>} :
            data = rowsToMatrix(rows)

(***************************************************************************)
(* C2.  Whole-record replace: a saveCell step on (courseId, criterionId)   *)
(* with draft text t and draft image lines L leaves, as the cell getCell   *)
(* returns for the pair, one with text exactly t and images exactly the    *)
(* normalized non-empty trimmed lines of L, whatever the cell held before: *)
(* with no non-empty line in L the images list is empty.                   *)
(***************************************************************************)
C2_Lines(L) == SelectSeq([i \in 1..Len(splitLines(L)) |-> trim(splitLines(L)[i])],
                         LAMBDA l : l # <<>>)

C2_Saved(d) == getCell(d, edit[1].courseId, edit[1].criterionId)

C2_WholeRecordReplace ==
    [][nSaves' = nSaves + 1 =>
         /\ C2_Saved(data') # <<>>
         /\ C2_Saved(data')[1].text = draftText
         /\ Len(C2_Saved(data')[1].images) = Len(C2_Lines(draftImages))
         /\ \A i \in 1..Len(C2_Lines(draftImages)) :
               C2_Saved(data')[1].images[i].url =
                   normalizeImageUrl(C2_Lines(draftImages)[i])
         /\ Len(data'.cells) = IF C2_Saved(data) = <<>> THEN Len(data.cells) + 1
                               ELSE Len(data.cells)]_vars

\* a first save of text "new" with no image line over the cell of sheet A,
\* which the load filled with two images
C2_Witness ==
    /\ activeTab = TabA
    /\ nSaves = 1
    /\ Len(saves) = 1
    /\ saves[1].courseId = <<"a", "1">>
    /\ saves[1].text = <<"n", "e", "w">>
    /\ saves[1].images = <<>>
    /\ getCell(rowsToMatrix(RowsA), <<"a", "1">>, <<"k", "a">>)[1].images # <<>>
    /\ getCell(data, <<"a", "1">>, <<"k", "a">>)[1].text = <<"n", "e", "w">>
    /\ getCell(data, <<"a", "1">>, <<"k", "a">>)[1].images = <<>>

(***************************************************************************)
(* C3.  Local edits are never rolled back: no step in which a write of     *)
(* saveCell is answered, fails, is retried or given up changes the matrix, *)
(* whatever the outcome; the matrix changes only with a saveCell call or   *)
(* with the completion of a tab's load.                                    *)
(***************************************************************************)
C3_NeverRolledBack ==
    [][/\ (nSaves' = nSaves /\ (saves' # saves \/ lastWrite' # lastWrite))
            => data' = data
       /\ data' # data => (nSaves' = nSaves + 1 \/ loads' # loads)]_vars

\* the only write of a save failed and the saved cell is in place
C3_Witness ==
    /\ nSaves = 1
    /\ saves = <<>>
    /\ lastWrite.log = <<"failed">>
    /\ loads = {}
    /\ getCell(data, <<"a", "1">>, <<"k", "a">>) # <<>>
    /\ getCell(data, <<"a", "1">>, <<"k", "a">>)[1].text = <<"n", "e", "w">>

(***************************************************************************)
(* C4.  Authorization retry.  The claim as stated: whenever the first      *)
(* response to a saveCell write signals an authorization failure, the      *)
(* call prompts exactly once and sends exactly two requests.               *)
(***************************************************************************)
C4_AlwaysTwoRequests ==
    (lastWrite.log # <<>> /\ lastWrite.log[1] = "unauthorized") =>
        /\ lastWrite.prompts = 1
        /\ lastWrite.reqs = 2

(***************************************************************************)
(* C4 as amended: when the first response signals an authorization         *)
(* failure the call prompts exactly once; with a non-empty answer it sends *)
(* exactly one retry carrying that answer as apiKey (two requests), with   *)
(* the prompt dismissed or left empty it sends none (one request); the     *)
(* retry's response never brings another prompt or a third request, and    *)
(* without an authorization failure there is one request and no prompt.    *)
(***************************************************************************)
C4_Falsy(answer) == answer = NULL \/ answer = ""

C4_InFlightOk(call) ==
    IF call.pc = "first"
    THEN Len(call.keys) = 1 /\ call.prompts = 0
    ELSE /\ Len(call.keys) = 2
         /\ call.prompts = 1
         /\ ~C4_Falsy(call.answer)
         /\ call.keys[2] = call.answer

C4_EndedOk(w) ==
    IF w.log[1] # "unauthorized" THEN w.prompts = 0 /\ w.reqs = 1 /\ Len(w.log) = 1
    ELSE /\ w.prompts = 1
         /\ IF C4_Falsy(w.answer) THEN w.reqs = 1 /\ Len(w.log) = 1
            ELSE w.reqs = 2 /\ Len(w.log) = 2

C4_OnePromptAtMostOneRetry ==
    /\ \A i \in 1..Len(saves) : C4_InFlightOk(saves[i])
    /\ lastWrite.log # <<>> => C4_EndedOk(lastWrite)

\* a retry answered with an authorization failure again: the call is over
C4_Witness ==
    /\ lastWrite.log = <<"unauthorized", "unauthorized">>
    /\ lastWrite.reqs = 2
    /\ lastWrite.prompts = 1
    /\ saves = <<>>

(***************************************************************************)
(* C5.  Credential persistence: the step that takes a credential from the  *)
(* prompt stores it and sends the retry with it; no other step changes     *)
(* the stored credential, whatever the retry's outcome; and the first      *)
(* request of every saveCell carries the stored credential as apiKey.      *)
(***************************************************************************)
C5_Entered(i) ==
    /\ saves[i].pc = "first"
    /\ Len(saves') = Len(saves)
    /\ saves'[i].pc = "retry"

C14_EmptyNameIsNoOp ==
    [][(nAdds' # nAdds /\ trim(newCriterion.name) = <<>>)
          => UNCHANGED <<data, newCriterion, addCriterionOpen, adds, saves,
                         courseAdds, loads, clock>>]_vars

\* the handler has run once, on the name " ", and Date.now() was never read
C14_Witness ==
    /\ nAdds = 1
    /\ clock = 0
    /\ newCriterion.name = <<" ">>
    /\ addCriterionOpen
    /\ Len(data.courses) > 0

(***************************************************************************)
(* C15.  addCriterionLocal with a non-empty name appends one criterion of  *)
(* the catch-all group to the matrix and sends one upsertCriterion         *)
(* request; when that request has settled it sends one upsertCell request  *)
(* per course the matrix had at the call, hidden or not, each with empty   *)
(* text and no images; every request carries the new criterion's id and    *)
(* the sheet name of the tab that was active at the call.  No other step   *)
(* sends a request of the call.                                            *)
(***************************************************************************)
C15_CourseIds(d) == [i \in 1..Len(d.courses) |-> d.courses[i].id]

\* the step of the call: the criterion is appended, upsertCriterion goes out
C15_Inserted ==
    LET c == data'.criteria[Len(data'.criteria)]
        call == adds'[Len(adds')]
    IN
    /\ data' = [data EXCEPT !.criteria = Append(@, c)]
    /\ c.group = MISC_GROUP
    /\ c.name = trim(newCriterion.name)
    /\ adds' = Append(adds, call)
    /\ call.id = c.id
    /\ call.tab = sheetName
    /\ call.courses = C15_CourseIds(data)
    /\ Len(call.pending) = 1
    /\ call.pending[1].action = UPSERT_CRITERION
    /\ call.pending[1].criterionId = c.id
    /\ call.pending[1].tab = sheetName

\* the step after upsertCriterion: one upsertCell per course of the call
C15_Primed(i) ==
    /\ adds[i].pc = "criterion"
    /\ adds'[i].pc = "cells"
    /\ Len(adds'[i].pending) = Len(adds[i].courses)
    /\ \A j \in 1..Len(adds[i].courses) :
          adds'[i].pending[j] =
             [action |-> UPSERT_CELL, apiKey |-> adds'[i].pending[j].apiKey,
              tab |-> adds[i].tab, courseId |-> adds[i].courses[j],
              criterionId |-> adds[i].id, text |-> <<>>, images |-> <<>>]

C15_OneRequestPerCourse ==
    [][/\ (nAdds' # nAdds /\ trim(newCriterion.name) # <<>>) => C15_Inserted
       /\ nAdds' = nAdds => Len(adds') <= Len(adds)
       /\ Len(adds') = Len(adds) =>
             \A i \in 1..Len(adds) : adds'[i] # adds[i] => C15_Primed(i)
       /\ Len(adds') < Len(adds) =>
             \E i \in 1..Len(adds) : adds[i].pc = "cells" /\ adds' = RemoveAt(adds, i)
      ]_vars

\* the primes of a call are out, one of them for a hidden course, and the
\* user has switched to another tab since the call
C15_Witness ==
    \E i \in 1..Len(adds) :
        /\ adds[i].pc = "cells"
        /\ adds[i].tab = SheetA
        /\ activeTab = TabB
        /\ Len(adds[i].pending) = 1
        /\ includesId(hiddenCourses, adds[i].pending[1].courseId)

(***************************************************************************)
(* C16.  The hidden-course set is kept per tab: whenever a tab is loaded   *)
(* and the view is ready, the hidden set in force is the set of courses    *)
(* that were hidden, and not shown again, while that tab was the active    *)
(* one; a course hidden under tab A is not in the hidden set of tab B.     *)
(***************************************************************************)
C16_HiddenSet == {hiddenCourses[i] : i \in 1..Len(hiddenCourses)}

C16_HiddenUnder(tab) == {p[2] : p \in {q \in hiddenIn : q[1] = tab}}

C16_HiddenSetPerTab ==
    (/\ tabsPc = "done"
     /\ activeTab # <<>>
     /\ loads = {}
     /\ ~loading
     /\ loadError = NULL)
        => C16_HiddenSet = C16_HiddenUnder(activeTab)

(***************************************************************************)
(* C17.  Between two tab loads no operation removes data: a step that      *)
(* changes the hidden courses leaves the matrix unchanged, and every step  *)
(* other than the completion of a tab load (saveCell, addCriterionLocal,   *)
(* addCourse and their responses included) keeps every criterion id,       *)
(* every course id and every (courseId, criterionId) pair of the cells.    *)
(***************************************************************************)
C17_CriterionIds(d) == {d.criteria[i].id : i \in 1..Len(d.criteria)}

C17_CourseIds(d) == {d.courses[i].id : i \in 1..Len(d.courses)}

C17_CellPairs(d) == {<<d.cells[i].courseId, d.cells[i].criterionId>> : i \in 1..Len(d.cells)}

C17_NothingRemoved ==
    [][/\ hiddenCourses' # hiddenCourses => data' = data
       /\ loads' = loads =>
             /\ C17_CriterionIds(data) \subseteq C17_CriterionIds(data')
             /\ C17_CourseIds(data) \subseteq C17_CourseIds(data')
             /\ C17_CellPairs(data) \subseteq C17_CellPairs(data')
      ]_vars

\* on the loaded tab A a cell was saved and a course added, the first course
\* was hidden, shown again and hidden again, and the matrix has grown
C17_Witness ==
    /\ nLoads = 1
    /\ loads = {}
    /\ nSaves = 1
    /\ nCourseAdds = 1
    /\ courseAdds = <<>>
    /\ Len(data.courses) = 2
    /\ storageKey(HIDDEN_KEY) \in DOMAIN storage
    /\ hiddenCourses = <<data.courses[1].id>>
    /\ C17_CellPairs(rowsToMatrix(RowsA)) \subseteq C17_CellPairs(data)

(***************************************************************************)
(* C18.  Empty tab index: once the tab-index effect has ended without a    *)
(* tab (the index has no record, or none with a sheet value, or its fetch  *)
(* failed), the controller is in the error state with a message, the       *)
(* active tab is unset, no load of a data sheet was started and the grid   *)
(* is not rendered.                                                        *)
(***************************************************************************)
C18_EmptyIndexIsAnError ==
    (tabsPc = "done" /\ tabs = <<>>) =>
        /\ loadError \in {"NoTabs", "FetchFailed"}
        /\ activeTab = <<>>
        /\ nLoads = 0
        /\ loads = {}
        /\ ~loading
        /\ ~GridRendered

\* the index was read and no tab resolved
C18_Witness ==
    /\ tabsPc = "done"
    /\ tabs = <<>>
    /\ loadError = "NoTabs"

(***************************************************************************)
(* C19.  Tabs map one-to-one to sheets: once the tab index is built the    *)
(* tab ids are pairwise distinct, the mapping has one key per tab, and     *)
(* the active tab is a key of the mapping.                                 *)
(***************************************************************************)
C19_TabsOneToOne ==
    (tabsPc = "done" /\ loadError # "NoTabs" /\ loadError # "FetchFailed" /\ tabs # <<>>) =>
        /\ \A i, j \in 1..Len(tabs) : tabs[i].id = tabs[j].id => i = j
        /\ Cardinality(DOMAIN tabToSheet) = Len(tabs)
        /\ activeTab \in DOMAIN tabToSheet

(***************************************************************************)
(* C20.  Parse errors are surfaced: a load never ends in the ready state   *)
(* with the matrix of no rows (every sheet of the model has records, so    *)
(* that matrix comes only from a response without the envelope).           *)
(***************************************************************************)
C20_ParseErrorsSurfaced ==
    (nLoads > 0 /\ ~loading /\ loadError = NULL) => data # rowsToMatrix(<<>>)

(***************************************************************************)
(* The controller under a network that may never answer.  The reads go     *)
(* through fetchWithTimeout, whose timer aborts an unanswered request: a   *)
(* fetch of the tab index or of a data sheet that is not answered fails.   *)
(* The writes of saveCell and addCriterionLocal call fetch directly, with  *)
(* no timer: nothing in the program makes them end, so no fairness is      *)
(* assumed for their responses.                                            *)
(***************************************************************************)
\* setTimeout(() => controller.abort(), timeoutMs) of a data-sheet fetch
LoadTimesOut == \E l \in loads : LoadFails(l)

\* one write call is followed: the first saveCell or addCriterionLocal call
FirstCall == nSaves + nAdds = 0

NextTimeout ==
    \/ TabsFetchFails
    \/ \E rows \in TabIndexContents : TabsFetchedEmpty(rows)
    \/ \E rows \in TabIndexContents : TabsFetched(rows)
    \/ \E tab \in DOMAIN tabToSheet : SwitchTab(tab)
    \/ \E l \in loads : \E rows \in SheetContents(l.sheet) : LoadDone(l, rows)
    \/ \E l \in loads : LoadNoEnvelope(l)
    \/ LoadTimesOut
    \/ \E c \in visibleCourseIds : \E k \in groupedCriteriaIds : OpenEdit(c, k)
    \/ \E d \in DraftPool : SetDraft(d)
    \/ CancelEdit
    \/ FirstCall /\ SaveCell
    \/ \E i \in 1..Len(saves) : WriteFails(i)
    \/ \E i \in 1..Len(saves) : \E resp \in ResponsePool : WriteAnswered(i, resp)
    \/ \E i \in 1..Len(saves) : \E resp \in ResponsePool : \E key \in PromptAnswers :
          WriteUnauthorized(i, resp, key)
    \/ \E i \in 1..Len(saves) : \E resp \in ResponsePool : RetryAnswered(i, resp)
    \/ OpenAddCriterion
    \/ \E f \in FormPool : SetNewCriterion(f)
    \/ CancelAddCriterion
    \/ \E now \in 1..MaxClock : FirstCall /\ addCriterionLocal(now)
    \/ \E i \in 1..Len(adds) : CriterionWriteSettled(i)
    \/ \E i \in 1..Len(adds) : PrimeWritesSettled(i)

SpecTimeout ==
    Init /\ [][NextTimeout]_vars /\ WF_vars(TabsFetchFails) /\ WF_vars(LoadTimesOut)

(***************************************************************************)
(* C22.  Every remote call is bounded by the timeout: no fetch of a data   *)
(* sheet stays outstanding forever, and no saveCell and no                 *)
(* addCriterionLocal call stays pending forever.                           *)
(***************************************************************************)
C22_EveryCallCompletes ==
    /\ (loads # {}) ~> (loads = {})
    /\ (saves # <<>>) ~> (saves = <<>>)
    /\ (adds # <<>>) ~> (adds = <<>>)

(***************************************************************************)
(* C23.  Background write failures are never surfaced.  A step in which a  *)
(* write of saveCell or of addCriterionLocal ends (fetch rejects or is     *)
(* answered, for the upsertCell of saveCell, for upsertCriterion and for   *)
(* the prime writes, of which any number may have failed) leaves the load  *)
(* error and the loading flag as they are and leaves a rendered grid       *)
(* rendered; and when the upsertCriterion write of a call ends, failed or  *)
(* not, one upsertCell request per course goes out: a call returns only    *)
(* after its prime writes were sent.                                       *)
(***************************************************************************)
C23_SaveWriteEnds == nSaves' = nSaves /\ saves' # saves

C23_AddWriteEnds == nAdds' = nAdds /\ adds' # adds

C23_WriteFailuresNotSurfaced ==
    [][/\ (C23_SaveWriteEnds \/ C23_AddWriteEnds) =>
            /\ loadError' = loadError
            /\ loading' = loading
            /\ GridRendered => GridRendered'
       /\ C23_AddWriteEnds =>
            \E i \in 1..Len(adds) :
                \/ /\ adds[i].pc = "criterion"
                   /\ adds' = [adds EXCEPT ![i].pc = "cells",
                                           ![i].pending = primeRequests(adds[i])]
                   /\ Len(adds'[i].pending) = Len(adds[i].courses)
                \/ /\ adds[i].pc = "cells"
                   /\ adds' = RemoveAt(adds, i)]_vars

\* a saveCell write has failed, the upsertCriterion write of an add has
\* ended and its primes are out, and the grid is rendered with no error
C23_Witness ==
    /\ lastWrite # NoWrite
    /\ lastWrite.log = <<"failed">>
    /\ adds # <<>>
    /\ adds[1].pc = "cells"
    /\ Len(adds[1].pending) >= 1
    /\ GridRendered
    /\ loadError = NULL

(***************************************************************************)
(* C24.  Grouping is a partition.  The claim as stated: every criterion    *)
(* other than the reserved course_meta row appears in exactly one display  *)
(* group.                                                                  *)
(***************************************************************************)
C24_Built == bpc \in {"built", "builtApp"}

\* the display groups criterion c appears in
C24_GroupsOf(c) ==
    LET groups == groupedCriteria(data.criteria)
    IN {g \in DOMAIN groups : \E j \in 1..Len(groups[g]) : groups[g][j] = c}

C24_Reserved(c) == c.id = COURSE_CRIT_ID \/ c.group = COURSE_GROUP

C24_CatchAll(c) == c.group \in {<<>>, MISC_GROUP, LEGACY_MISC_GROUP}

C25_PairsOf(sheet) ==
    UNION {LET m == rowsToMatrix(rows) IN
           {<<m.courses[i].id, m.criteria[j].id>> :
               i \in 1..Len(m.courses), j \in 1..Len(m.criteria)} :
           rows \in SheetContents(sheet)}

C25_WritesNameTheSourceSheet ==
    \A i \in 1..Len(saves) :
        <<saves[i].courseId, saves[i].criterionId>> \in C25_PairsOf(saves[i].tab)

(***************************************************************************)
(* C26.  Referential integrity: in every reachable state every cell of     *)
(* the matrix has the id of a course of the matrix and the id of a         *)
(* criterion of the matrix.                                                *)
(***************************************************************************)
C26_ReferentialIntegrity ==
    \A k \in 1..Len(data.cells) :
        /\ \E i \in 1..Len(data.courses) : data.courses[i].id = data.cells[k].courseId
        /\ \E j \in 1..Len(data.criteria) : data.criteria[j].id = data.cells[k].criterionId

(***************************************************************************)
(* C27.  Criterion ids are unique: the ids of the criteria of the matrix   *)
(* are pairwise distinct, for every record list given to rowsToMatrix.     *)
(***************************************************************************)
C27_CriterionIdsDistinct ==
    \A i, j \in 1..Len(data.criteria) :
        i # j => data.criteria[i].id # data.criteria[j].id

(***************************************************************************)
(* C28.  The loading flag covers the whole load: in every reachable state  *)
(* in which a fetch for the active tab is outstanding, loading is true.    *)
(***************************************************************************)
C28_LoadingCoversLoad ==
    (\E l \in loads : l.tab = activeTab) => loading

(***************************************************************************)
(* C29.  addCourse keeps course ids unique: in every reachable state the   *)
(* ids of the courses of the matrix are pairwise distinct.                 *)
(***************************************************************************)
C29_CourseIdsDistinct ==
    \A i, j \in 1..Len(data.courses) :
        i # j => data.courses[i].id # data.courses[j].id

(***************************************************************************)
(* The write endpoint.  Each saveCell call sends its request with a fetch  *)
(* of its own and nothing orders the requests of two calls: the endpoint   *)
(* handles the requests in flight in any order, and each answer reaches    *)
(* its call some time later.  Every request is answered with success.      *)
(***************************************************************************)
\* what the endpoint stores of an upsertCell request
upsertCellStored(call) ==
    [tab |-> call.tab, courseId |-> call.courseId, criterionId |-> call.criterionId,
     text |-> call.text, images |-> call.images]

\* the endpoint handles the request of call i: the cell is written and the
\* answer is on its way
RemoteHandles(i) ==
    /\ i \in 1..Len(saves)
    /\ saves[i].pc = "first"
    /\ remote' = Append(remote, upsertCellStored(saves[i]))
    /\ saves' = [saves EXCEPT ![i].pc = "answered"]
    /\ UNCHANGED <<opsVars, tabsPc, tabs, tabToSheet, activeTab, data, loading,
                   loadError, loads, nLoads, edit, draftText, draftImages, apiKey,
                   nSaves, lastWrite, inRows, bpc>>

\* await fetch(...) and await res.text() return with the answer: no
\* authorization failure, the call returns
AnswerArrives(i) ==
    /\ i \in 1..Len(saves)
    /\ saves[i].pc = "answered"
    /\ saves' = RemoveAt(saves, i)
    /\ lastWrite' = Ended(saves[i], "ok")
    /\ UNCHANGED <<opsVars, tabsPc, tabs, tabToSheet, activeTab, data, loading,
                   loadError, loads, nLoads, edit, draftText, draftImages, apiKey,
                   nSaves, inRows, bpc, remote>>

\* the value the endpoint holds for a cell: the request handled last
remoteCell(tab, courseId, criterionId) ==
    LET hits == SelectSeq(remote, LAMBDA q : /\ q.tab = tab
                                              /\ q.courseId = courseId
                                              /\ q.criterionId = criterionId)
    IN IF hits = <<>> THEN <<>> ELSE <<hits[Len(hits)]>>

NextRemote ==
    \/ TabsFetchFails
    \/ \E rows \in TabIndexContents : TabsFetchedEmpty(rows)
    \/ \E rows \in TabIndexContents : TabsFetched(rows)
    \/ \E l \in loads : \E rows \in SheetContents(l.sheet) : LoadDone(l, rows)
    \/ \E l \in loads : LoadNoEnvelope(l)
    \/ \E l \in loads : LoadFails(l)
    \/ \E c \in visibleCourseIds : \E k \in groupedCriteriaIds : OpenEdit(c, k)
    \/ \E d \in DraftPool : SetDraft(d)
    \/ CancelEdit
    \/ SaveCell
    \/ \E i \in 1..Len(saves) : RemoteHandles(i)
    \/ \E i \in 1..Len(saves) : AnswerArrives(i)

SpecRemote == Init /\ [][NextRemote]_vars

(***************************************************************************)
(* C30.  Local and remote converge: when the same cell was saved twice,    *)
(* the endpoint has handled both requests with success and both calls      *)
(* have returned, the value the endpoint holds for the cell is the second  *)
(* save's, the one of the local cell (the text, and the image lines, which *)
(* the local cell holds normalized), whatever the order in which the       *)
(* endpoint handled the two requests.                                      *)
(***************************************************************************)
C30_SavedTwice ==
    /\ nSaves = 2
    /\ saves = <<>>
    /\ Len(remote) = 2
    /\ remote[1].tab = remote[2].tab
    /\ remote[1].courseId = remote[2].courseId
    /\ remote[1].criterionId = remote[2].criterionId

C30_RemoteHoldsSecondSave ==
    C30_SavedTwice =>
        LET held == remoteCell(remote[1].tab, remote[1].courseId, remote[1].criterionId)
            cell == getCell(data, remote[1].courseId, remote[1].criterionId)
        IN /\ held # <<>>
           /\ cell # <<>>
           /\ held[1].text = cell[1].text
           /\ toImages(held[1].images) = cell[1].images

=============================================================================
